---- MODULE Spec2Model ----
(***************************************************************************)
(* Model of the n64-pac register access layer: the Hardware singleton      *)
(* (HARDWARE_TAKEN, take, steal), the RW register cell (read, write,       *)
(* modify) as used from main program flow and from an interrupt handler,   *)
(* and the bit-field codec of the register value types.                    *)
(***************************************************************************)
EXTENDS Integers, Sequences, FiniteSets, TLC

(* ------------------------------ bounds --------------------------------- *)

\* raw values a register cell takes in the model: 0..MaxVal
MaxVal == 2

\* number of take()/steal() calls a behaviour may make
MaxCalls == 3

\* number of register accesses a behaviour of the whole machine may make
MaxOps == 2

(* ------------------------------ domains -------------------------------- *)

Vals == 0 .. MaxVal

\* the two execution contexts of the single core
Ctxs == {"main", "irq"}

\* two RW cells of the Video Interface block
Regs == {"ctrl", "origin"}

\* closures handed to modify(func)
Funcs == {"id", "inc", "zero"}

Apply(f, v) ==
  CASE f = "id" -> v
    [] f = "inc" -> (v + 1) % (MaxVal + 1)
    [] f = "zero" -> 0

NoOp ==
  [kind |-> "none", res |-> "-", reg |-> "-", fn |-> "-",
   arg |-> -1, loaded |-> -1, old |-> -1, before |-> -1, stolen |-> FALSE,
   clob |-> -1, other |-> FALSE]

\* no register value is being decoded or encoded
CodecOff == [pc |-> "off"]

(* ------------------------------- state --------------------------------- *)

VARIABLES
  HARDWARE_TAKEN,  \* static mut HARDWARE_TAKEN: bool
  handles,         \* number of live Hardware values
  mem,             \* the contents of the register cells
  pc,              \* where each context stands inside an operation
  op,              \* the operation each context is in, or completed last
  acc,             \* the loads and stores of that operation, in order
  nDone,           \* number of completed take()/steal() calls
  nSteal,          \* number of completed steal() calls
  takeSome,        \* number of take() calls that returned Some
  seqMem,          \* register contents had every operation run undivided
  codec            \* a register value type and the field accessor at work

vars == <<HARDWARE_TAKEN, handles, mem, pc, op, acc, nDone, nSteal, takeSome,
          seqMem, codec>>

arbiterVars == <<HARDWARE_TAKEN, handles, nDone, nSteal, takeSome>>

Init ==
  /\ HARDWARE_TAKEN = FALSE
  /\ handles = 0
  /\ mem \in [Regs -> Vals]
  /\ pc = [c \in Ctxs |-> IF c = "main" THEN "idle" ELSE "off"]
  /\ op = [c \in Ctxs |-> NoOp]
  /\ acc = [c \in Ctxs |-> <<>>]
  /\ nDone = 0
  /\ nSteal = 0
  /\ takeSome = 0
  /\ seqMem = mem
  /\ codec = CodecOff

\* main flow runs while no handler is active; the handler runs to its return
Running(c) == IF c = "main" THEN pc["irq"] = "off" ELSE pc["irq"] # "off"

Idle(c) == Running(c) /\ pc[c] = "idle"

(* --------------------------- Hardware::take ---------------------------- *)

\* the test of take(): if unsafe { HARDWARE_TAKEN }
ClaimedInverted(taken) == ~taken

Claimed(taken) == taken

\* if unsafe { HARDWARE_TAKEN } { None } else { ... }
TakeCheck(c) ==
  /\ Idle(c)
  /\ nDone < MaxCalls
  /\ acc' = [acc EXCEPT ![c] = <<<<"load", "HARDWARE_TAKEN">>>>]
  /\ IF Claimed(HARDWARE_TAKEN)
       THEN /\ op' = [op EXCEPT ![c] = [NoOp EXCEPT !.kind = "take",
                        !.res = "None", !.before = nDone,
                        !.stolen = (nSteal > 0)]]
            /\ nDone' = nDone + 1
            /\ pc' = pc
       ELSE /\ op' = [op EXCEPT ![c] = [NoOp EXCEPT !.kind = "take",
                        !.before = nDone, !.stolen = (nSteal > 0)]]
            /\ pc' = [pc EXCEPT ![c] = "take_steal"]
            /\ nDone' = nDone
  /\ UNCHANGED <<codec, HARDWARE_TAKEN, handles, mem, nSteal, takeSome,
               seqMem>>

\* HARDWARE_TAKEN = true;
FlagAfterStealUnset == FALSE

FlagAfterSteal == TRUE

\* Some(unsafe { Self::steal() })
TakeSteal(c) ==
  /\ Running(c)
  /\ pc[c] = "take_steal"
  /\ HARDWARE_TAKEN' = FlagAfterSteal
  /\ handles' = handles + 1
  /\ takeSome' = takeSome + 1
  /\ nDone' = nDone + 1
  /\ op' = [op EXCEPT ![c].res = "Some"]
  /\ acc' = [acc EXCEPT ![c] = Append(@, <<"store", "HARDWARE_TAKEN">>)]
  /\ pc' = [pc EXCEPT ![c] = "idle"]
  /\ UNCHANGED <<codec, mem, nSteal, seqMem>>

(* --------------------------- Hardware::steal --------------------------- *)

\* steal() returns Self { .. } whatever the flag was
StealResultOnce(taken) == IF taken THEN "None" ELSE "Some"

StealResult(taken) == "Some"

steal(c) ==
  /\ Idle(c)
  /\ nDone < MaxCalls
  /\ HARDWARE_TAKEN' = FlagAfterSteal
  /\ op' = [op EXCEPT ![c] = [NoOp EXCEPT !.kind = "steal",
              !.res = StealResult(HARDWARE_TAKEN), !.before = nDone,
              !.stolen = (nSteal > 0)]]
  /\ handles' = IF StealResult(HARDWARE_TAKEN) = "Some"
                  THEN handles + 1 ELSE handles
  /\ nDone' = nDone + 1
  /\ nSteal' = nSteal + 1
  /\ acc' = [acc EXCEPT ![c] = <<<<"store", "HARDWARE_TAKEN">>>>]
  /\ UNCHANGED <<codec, mem, pc, takeSome, seqMem>>

(* ------------------------ discarding a Hardware ------------------------ *)

\* Hardware has no Drop implementation: the value goes, the flag stays
FlagAfterDropRelease(taken, left) == taken /\ left > 0

FlagAfterDrop(taken, left) == taken

DropHandle(c) ==
  /\ Idle(c)
  /\ handles > 0
  /\ handles' = handles - 1
  /\ HARDWARE_TAKEN' = FlagAfterDrop(HARDWARE_TAKEN, handles - 1)
  /\ op' = [op EXCEPT ![c] = [NoOp EXCEPT !.kind = "drop"]]
  /\ acc' = [acc EXCEPT ![c] = <<>>]
  /\ UNCHANGED <<codec, mem, pc, nDone, nSteal, takeSome, seqMem>>

(* ------------------------------ RW cell -------------------------------- *)

\* ptr.write_volatile(data): one store of the cell's width, to the cell
StoreNarrow(m, r, v) == [m EXCEPT ![r] = v % 2]

StoreWide(m, r, v) == [x \in Regs |-> IF x = r THEN v ELSE 0]

StoreSpill(m, r, v) == [x \in DOMAIN m |-> v]

Store(m, r, v) == [m EXCEPT ![r] = v]

\* a store of context c lands while the other context is inside a modify:
\* on the register being modified (clob) or on another one (other)
Clobber(c, r, v) ==
  [d \in Ctxs |->
     IF d # c /\ pc[d] = "modify_store"
       THEN IF op[d].reg = r
              THEN [op[d] EXCEPT !.clob = v]
              ELSE [op[d] EXCEPT !.other = TRUE]
       ELSE op[d]]

\* func(ptr.read_volatile()): the closure gets the value loaded by modify
ModifyInputReload(c) == mem[op[c].reg]

ModifyInput(c) == op[c].loaded

ModifyResultStale(f, loaded) == loaded

ModifyResult(f, loaded) == Apply(f, loaded)

read(c, r) ==
  /\ Idle(c)
  /\ op' = [op EXCEPT ![c] = [NoOp EXCEPT !.kind = "read", !.reg = r,
              !.old = mem[r], !.loaded = mem[r]]]
  /\ acc' = [acc EXCEPT ![c] = <<<<"load", r>>>>]
  /\ UNCHANGED <<codec, arbiterVars, mem, pc, seqMem>>

write(c, r, v) ==
  /\ Idle(c)
  /\ mem' = Store(mem, r, v)
  /\ seqMem' = [seqMem EXCEPT ![r] = v]
  /\ op' = [Clobber(c, r, v) EXCEPT ![c] = [NoOp EXCEPT !.kind = "write",
              !.reg = r, !.arg = v, !.old = mem[r]]]
  /\ acc' = [acc EXCEPT ![c] = <<<<"store", r>>>>]
  /\ UNCHANGED <<codec, arbiterVars, pc>>

\* ptr.read_volatile()
ModifyLoad(c, r, f) ==
  /\ Idle(c)
  /\ op' = [op EXCEPT ![c] = [NoOp EXCEPT !.kind = "modify", !.reg = r,
              !.fn = f, !.old = mem[r], !.loaded = mem[r]]]
  /\ acc' = [acc EXCEPT ![c] = <<<<"load", r>>>>]
  /\ pc' = [pc EXCEPT ![c] = "modify_store"]
  /\ UNCHANGED <<codec, arbiterVars, mem, seqMem>>

\* ptr.write_volatile(func(...))
ModifyStore(c) ==
  /\ Running(c)
  /\ pc[c] = "modify_store"
  /\ LET r == op[c].reg
         v == ModifyResult(op[c].fn, ModifyInput(c))
     IN /\ mem' = Store(mem, r, v)
        /\ seqMem' = [seqMem EXCEPT ![r] = Apply(op[c].fn, seqMem[r])]
        /\ op' = [Clobber(c, r, v) EXCEPT ![c].arg = v]
        /\ acc' = [acc EXCEPT ![c] = Append(@, <<"store", r>>)]
  /\ pc' = [pc EXCEPT ![c] = "idle"]
  /\ UNCHANGED <<arbiterVars, codec>>

(* ----------------------------- interrupts ------------------------------ *)

\* an interrupt is taken between any two instructions of main flow
IrqEnter ==
  /\ pc["irq"] = "off"
  /\ pc' = [pc EXCEPT !["irq"] = "idle"]
  /\ UNCHANGED <<codec, arbiterVars, mem, op, acc, seqMem>>

\* the handler returns (its locals are gone) and main flow resumes
IrqReturn ==
  /\ pc["irq"] = "idle"
  /\ pc' = [pc EXCEPT !["irq"] = "off"]
  /\ op' = [op EXCEPT !["irq"] = NoOp]
  /\ acc' = [acc EXCEPT !["irq"] = <<>>]
  /\ UNCHANGED <<codec, arbiterVars, mem, seqMem>>

(* --------------------------- the field codec --------------------------- *)

\* A register value is the set of the positions of its one bits, so that
\* 32-bit and 64-bit registers keep their full width.

\* fields of at most this many bits are tried with every bit pattern
MaxFullWidth == 3

RECURSIVE NumOf(_)
\* the number a bit set stands for
NumOf(bits) ==
  IF bits = {} THEN 0
  ELSE LET b == CHOOSE x \in bits : TRUE
       IN 2 ^ b + NumOf(bits \ {b})

\* the low n bits of number v, as a bit set (v as uN)
BitsOf(v, n) == {i \in 0 .. (n - 1) : (v \div (2 ^ i)) % 2 = 1}

\* #[derive(IntoPrimitive, FromPrimitive)] enumerations: declared values
\* (a variant without one takes the previous value plus one) and #[default]
CacheAlgorithm ==
  [variants |-> {<<"Uncached", 2>>, <<"Cached", 3>>}, default |-> "Cached"]

PageSize ==
  [variants |-> {<<"KB4", 0>>, <<"KB16", 3>>, <<"KB64", 15>>, <<"KB256", 63>>,
                 <<"MB1", 255>>, <<"MB4", 1023>>, <<"MB16", 4095>>,
                 <<"Undefined", 4096>>},
   default |-> "Undefined"]

VAddrRegion ==
  [variants |-> {<<"User", 0>>, <<"Supervisor", 1>>, <<"Unknown", 2>>,
                 <<"Kernel", 3>>},
   default |-> "Unknown"]

RoundingMode ==
  [variants |-> {<<"Rn", 0>>, <<"Rz", 1>>, <<"Rp", 2>>, <<"Rm", 3>>},
   default |-> "Rn"]

AntiAliasMode ==
  [variants |-> {<<"Disabled", 3>>, <<"ResamplingOnly", 2>>,
                 <<"EnabledAsNeeded", 1>>, <<"Enabled", 0>>},
   default |-> "Enabled"]

ColorDepth ==
  [variants |-> {<<"BPP32", 3>>, <<"BPP16", 2>>, <<"Reserved", 1>>,
                 <<"Blank", 0>>},
   default |-> "Blank"]

ExceptionCode ==
  [variants |-> {<<"Interrupt", 0>>, <<"TlbModification", 1>>,
                 <<"TlbMissOnLoad", 2>>, <<"TlbMissOnStore", 3>>,
                 <<"AddressErrorOnLoad", 4>>, <<"AddressErrorOnStore", 5>>,
                 <<"InstructionBusError", 6>>, <<"DataBusError", 7>>,
                 <<"Syscall", 8>>, <<"Breakpoint", 9>>,
                 <<"ReservedInstruction", 10>>, <<"CoprocessorUnusable", 11>>,
                 <<"ArithmeticOverflow", 12>>, <<"Trap", 13>>,
                 <<"FloatingPoint", 15>>, <<"Watch", 23>>,
                 <<"Reserved", 24>>},
   default |-> "Reserved"]

EnumOf(en) ==
  CASE en = "CacheAlgorithm" -> CacheAlgorithm
    [] en = "PageSize" -> PageSize
    [] en = "VAddrRegion" -> VAddrRegion
    [] en = "RoundingMode" -> RoundingMode
    [] en = "AntiAliasMode" -> AntiAliasMode
    [] en = "ColorDepth" -> ColorDepth
    [] en = "ExceptionCode" -> ExceptionCode

Declared(en, n) == \E v \in EnumOf(en).variants : v[2] = n

\* FromPrimitive: the variant whose value is n, else the #[default] variant
from_primitive_try(en, n) ==
  IF Declared(en, n)
    THEN (CHOOSE v \in EnumOf(en).variants : v[2] = n)[1]
    ELSE "Err"

from_primitive(en, n) ==
  IF Declared(en, n)
    THEN (CHOOSE v \in EnumOf(en).variants : v[2] = n)[1]
    ELSE EnumOf(en).default

\* IntoPrimitive: the value of the variant
into_primitive(en, variant) ==
  (CHOOSE v \in EnumOf(en).variants : v[1] = variant)[2]

\* one field of a bitfield! struct: `name: ty [en] @ lo..=hi` in a register
\* type reg of sw bits
Fld(reg, sw, name, lo, hi, kind, ty, en) ==
  [reg |-> reg, sw |-> sw, name |-> name, o |-> lo, w |-> hi - lo + 1,
   kind |-> kind, ty |-> ty, en |-> en]

Num(reg, sw, name, lo, hi, ty) == Fld(reg, sw, name, lo, hi, "num", ty, "-")

Flag(reg, sw, name, b) == Fld(reg, sw, name, b, b, "bool", 1, "-")

Enum(reg, sw, name, lo, hi, ty, en) ==
  Fld(reg, sw, name, lo, hi, "enum", ty, en)

IndexRegFields ==
  {Num("IndexReg", 32, "index", 0, 5, 8), Flag("IndexReg", 32, "probe", 31)}

EntryLoRegFields ==
  {Flag("EntryLoReg", 32, "global", 0),
   Flag("EntryLoReg", 32, "valid", 1),
   Flag("EntryLoReg", 32, "dirty", 2),
   Enum("EntryLoReg", 32, "cache_algorithm", 3, 5, 8, "CacheAlgorithm"),
   Num("EntryLoReg", 32, "page_frame_number", 6, 29, 32)}

PageMaskRegFields ==
  {Enum("PageMaskReg", 32, "mask", 13, 24, 16, "PageSize")}

EntryHiRegFields ==
  {Num("EntryHiReg", 64, "asid", 0, 7, 8),
   Num("EntryHiReg", 64, "vpn2_u32", 13, 31, 32),
   Num("EntryHiReg", 64, "vpn2_u64", 13, 39, 32),
   Num("EntryHiReg", 64, "fill", 40, 61, 32),
   Enum("EntryHiReg", 64, "region", 62, 63, 8, "VAddrRegion")}

StatusRegFields ==
  {Flag("StatusReg", 32, "ie", 0),
   Flag("StatusReg", 32, "exl", 1),
   Flag("StatusReg", 32, "erl", 2),
   Num("StatusReg", 32, "ksu", 3, 4, 8),
   Flag("StatusReg", 32, "ux", 5),
   Flag("StatusReg", 32, "sx", 6),
   Flag("StatusReg", 32, "kx", 7),
   Num("StatusReg", 32, "im", 8, 15, 8),
   Flag("StatusReg", 32, "im_ip0", 8),
   Flag("StatusReg", 32, "im_ip1", 9),
   Flag("StatusReg", 32, "im_int0", 10),
   Flag("StatusReg", 32, "im_int1", 11),
   Flag("StatusReg", 32, "im_int2", 12),
   Flag("StatusReg", 32, "im_int3", 13),
   Flag("StatusReg", 32, "im_int4", 14),
   Flag("StatusReg", 32, "im_timer", 15),
   Num("StatusReg", 32, "ds", 16, 24, 16),
   Flag("StatusReg", 32, "ds_de", 16),
   Flag("StatusReg", 32, "ds_ce", 17),
   Flag("StatusReg", 32, "ds_ch", 18),
   Flag("StatusReg", 32, "ds_sr", 20),
   Flag("StatusReg", 32, "ds_ts", 21),
   Flag("StatusReg", 32, "ds_bev", 22),
   Flag("StatusReg", 32, "ds_its", 24),
   Flag("StatusReg", 32, "re", 25),
   Flag("StatusReg", 32, "fr", 26),
   Flag("StatusReg", 32, "rp", 27),
   Num("StatusReg", 32, "cu", 28, 31, 8)}

ConfigRegFields ==
  {Enum("ConfigReg", 32, "k0", 0, 2, 8, "CacheAlgorithm"),
   Flag("ConfigReg", 32, "cu", 3),
   Flag("ConfigReg", 32, "be", 15),
   Num("ConfigReg", 32, "ep", 24, 27, 8)}

XContextRegFields ==
  {Num("XContextReg", 64, "badvpn2", 4, 30, 32),
   Enum("XContextReg", 64, "region", 31, 32, 8, "VAddrRegion"),
   Num("XContextReg", 64, "ptebase", 33, 63, 32)}

CtrlRegFields ==
  {Enum("CtrlReg", 32, "depth", 0, 1, 8, "ColorDepth"),
   Flag("CtrlReg", 32, "gamma_dither_enable", 2),
   Flag("CtrlReg", 32, "gamma_enable", 3),
   Flag("CtrlReg", 32, "divot_enable", 4),
   Flag("CtrlReg", 32, "vbus_clock_enable", 5),
   Flag("CtrlReg", 32, "serrate", 6),
   Flag("CtrlReg", 32, "test_mode", 7),
   Enum("CtrlReg", 32, "aa_mode", 8, 9, 8, "AntiAliasMode"),
   Flag("CtrlReg", 32, "kill_we", 11),
   Num("CtrlReg", 32, "pixel_advance", 12, 15, 8),
   Flag("CtrlReg", 32, "dither_filter_enable", 16)}

ControlStatusRegFields ==
  {Enum("ControlStatusReg", 32, "rm", 0, 1, 8, "RoundingMode"),
   Num("ControlStatusReg", 32, "flags", 2, 6, 8),
   Flag("ControlStatusReg", 32, "flag_inexact", 2),
   Flag("ControlStatusReg", 32, "flag_underflow", 3),
   Flag("ControlStatusReg", 32, "flag_overflow", 4),
   Flag("ControlStatusReg", 32, "flag_divzero", 5),
   Flag("ControlStatusReg", 32, "flag_invalid", 6),
   Num("ControlStatusReg", 32, "enables", 7, 11, 8),
   Flag("ControlStatusReg", 32, "enable_inexact", 7),
   Flag("ControlStatusReg", 32, "enable_underflow", 8),
   Flag("ControlStatusReg", 32, "enable_overflow", 9),
   Flag("ControlStatusReg", 32, "enable_divzero", 10),
   Flag("ControlStatusReg", 32, "enable_invalid", 11),
   Num("ControlStatusReg", 32, "causes", 12, 17, 8),
   Flag("ControlStatusReg", 32, "cause_inexact", 12),
   Flag("ControlStatusReg", 32, "cause_underflow", 13),
   Flag("ControlStatusReg", 32, "cause_overflow", 14),
   Flag("ControlStatusReg", 32, "cause_divzero", 15),
   Flag("ControlStatusReg", 32, "cause_invalid", 16),
   Flag("ControlStatusReg", 32, "cause_unimplemented", 17),
   Flag("ControlStatusReg", 32, "c", 23),
   Flag("ControlStatusReg", 32, "fs", 24)}

\* the fields that have both a getter and a setter
Fields ==
  IndexRegFields \cup EntryLoRegFields \cup PageMaskRegFields
    \cup EntryHiRegFields \cup StatusRegFields \cup ConfigRegFields
    \cup XContextRegFields \cup CtrlRegFields \cup ControlStatusRegFields

\* the bit positions o .. o+w-1 of field F
Range(F) == F.o .. (F.o + F.w - 1)

\* bits o..o+w-1 of the storage, shifted down to bit 0
ExtractNoShift(raw, o, w) == {b \in raw : b < w}

Extract(raw, o, w) == {b - o : b \in {x \in raw : o <= x /\ x < o + w}}

\* the storage with bits o..o+w-1 replaced by the low w bits of v
InsertFresh(raw, o, w, v) == {b + o : b \in {x \in v : x < w}}

InsertNoMask(raw, o, w, v) ==
  {b \in raw : b < o \/ b >= o + w} \cup {b + o : b \in v}

Insert(raw, o, w, v) ==
  {b \in raw : b < o \/ b >= o + w} \cup {b + o : b \in {x \in v : x < w}}

\* the getter F(): the field's bits cast to the field type, then converted
Get(F, raw) ==
  LET bits == {b \in Extract(raw, F.o, F.w) : b < F.ty}
  IN CASE F.kind = "num" -> bits
       [] F.kind = "bool" -> (bits # {})
       [] F.kind = "enum" -> from_primitive(F.en, NumOf(bits))

\* the setter with_F(value): the value converted to the field type, then
\* stored in the field's bits
WithClearsAbove(F, raw, value) ==
  LET bits == CASE F.kind = "num" -> value
                [] F.kind = "bool" -> (IF value THEN {0} ELSE {})
                [] F.kind = "enum" -> BitsOf(into_primitive(F.en, value), F.ty)
  IN {b \in Insert(raw, F.o, F.w, bits) : b < F.o + F.w}

With(F, raw, value) ==
  LET bits == CASE F.kind = "num" -> value
                [] F.kind = "bool" -> (IF value THEN {0} ELSE {})
                [] F.kind = "enum" -> BitsOf(into_primitive(F.en, value), F.ty)
  IN Insert(raw, F.o, F.w, bits)

\* the field patterns a register value is tried with
FieldPatterns(F) ==
  IF F.w <= MaxFullWidth
    THEN SUBSET (0 .. (F.w - 1))
    ELSE {{}, 0 .. (F.w - 1), {0}, {F.w - 1}, {1}, {0, F.w - 1}}
           \cup (IF F.kind = "enum"
                   THEN {BitsOf(v[2], F.w) : v \in EnumOf(F.en).variants}
                   ELSE {})

\* what the register value is tried with outside the field
OutsidePatterns(F) ==
  LET out == (0 .. (F.sw - 1)) \ Range(F)
  IN {{}, out, out \cap {F.o - 1, F.o + F.w}}

RawSamples(F) ==
  {{b + F.o : b \in fp} \cup ob :
     fp \in FieldPatterns(F), ob \in OutsidePatterns(F)}

InitCodec ==
  /\ HARDWARE_TAKEN = FALSE
  /\ handles = 0
  /\ mem = [r \in Regs |-> 0]
  /\ pc = [c \in Ctxs |-> IF c = "main" THEN "idle" ELSE "off"]
  /\ op = [c \in Ctxs |-> NoOp]
  /\ acc = [c \in Ctxs |-> <<>>]
  /\ nDone = 0
  /\ nSteal = 0
  /\ takeSome = 0
  /\ seqMem = mem
  /\ \E F \in Fields :
       \E raw \in RawSamples(F) :
         codec = [pc |-> "raw", F |-> F, raw |-> raw]

codecFrame == <<HARDWARE_TAKEN, handles, mem, pc, op, acc, nDone, nSteal,
                takeSome, seqMem>>

\* let value = reg.F();
Decode ==
  /\ codec.pc = "raw"
  /\ codec' = [pc |-> "decoded", F |-> codec.F, raw |-> codec.raw,
               value |-> Get(codec.F, codec.raw)]
  /\ UNCHANGED codecFrame

\* let out = Reg(0).with_F(value);
EncodeIntoZero ==
  /\ codec.pc = "decoded"
  /\ codec' = [pc |-> "encoded", F |-> codec.F, raw |-> codec.raw,
               value |-> codec.value, out |-> With(codec.F, {}, codec.value)]
  /\ UNCHANGED codecFrame

NextCodec == Decode \/ EncodeIntoZero

SpecCodec == InitCodec /\ [][NextCodec]_vars

(* ----------------------- enumerated fields alone ----------------------- *)

\* the names of the variants of an enumeration
VariantNames(en) == {v[1] : v \in EnumOf(en).variants}

\* CauseReg.exception_code has a getter only
CauseRegEnumFields ==
  {Enum("CauseReg", 32, "exception_code", 2, 6, 8, "ExceptionCode")}

\* every enumerated field of the crate
EnumFields == {F \in Fields : F.kind = "enum"} \cup CauseRegEnumFields

\* the non-codec state stays as the program starts it
FrameInit ==
  /\ HARDWARE_TAKEN = FALSE
  /\ handles = 0
  /\ mem = [r \in Regs |-> 0]
  /\ pc = [c \in Ctxs |-> IF c = "main" THEN "idle" ELSE "off"]
  /\ op = [c \in Ctxs |-> NoOp]
  /\ acc = [c \in Ctxs |-> <<>>]
  /\ nDone = 0
  /\ nSteal = 0
  /\ takeSome = 0
  /\ seqMem = mem

\* every bit pattern the field can hold, in a register value that is zero
\* or all ones elsewhere
InitEnum ==
  /\ FrameInit
  /\ \E F \in EnumFields :
       \E n \in 0 .. (2 ^ F.w - 1), fill \in BOOLEAN :
         codec = [pc |-> "pattern", F |-> F, n |-> n,
                  raw |-> {b + F.o : b \in BitsOf(n, F.w)}
                            \cup (IF fill
                                    THEN (0 .. (F.sw - 1)) \ Range(F)
                                    ELSE {})]

\* let value = reg.F();  for an enumerated field
DecodeEnum ==
  /\ codec.pc = "pattern"
  /\ codec' = [pc |-> "variant", F |-> codec.F, n |-> codec.n,
               raw |-> codec.raw, value |-> Get(codec.F, codec.raw)]
  /\ UNCHANGED codecFrame

NextEnum == DecodeEnum

SpecEnum == InitEnum /\ [][NextEnum]_vars

\* the enumerated fields that have a setter
SettableEnumFields == {F \in Fields : F.kind = "enum"}

\* a variant to store in a field of a register value
InitVariant ==
  /\ FrameInit
  /\ \E F \in SettableEnumFields :
       \E v \in VariantNames(F.en), raw \in OutsidePatterns(F) :
         codec = [pc |-> "chosen", F |-> F, value |-> v, raw |-> raw]

\* let out = reg.with_F(variant);
EncodeVariant ==
  /\ codec.pc = "chosen"
  /\ codec' = [pc |-> "stored", F |-> codec.F, value |-> codec.value,
               raw |-> codec.raw,
               out |-> With(codec.F, codec.raw, codec.value)]
  /\ UNCHANGED codecFrame

\* let back = out.F();
DecodeBack ==
  /\ codec.pc = "stored"
  /\ codec' = [pc |-> "back", F |-> codec.F, value |-> codec.value,
               raw |-> codec.raw, out |-> codec.out,
               back |-> Get(codec.F, codec.out)]
  /\ UNCHANGED codecFrame

NextVariant == EncodeVariant \/ DecodeBack

SpecVariant == InitVariant /\ [][NextVariant]_vars

(* --------------------------- setting a field --------------------------- *)

\* the logical values a setter is called with: every value of a flag, every
\* variant of an enumeration, and values of the field type of a numeric
\* field, those that need more bits than the field has included
ValueSamples(F) ==
  CASE F.kind = "bool" -> BOOLEAN
    [] F.kind = "enum" -> VariantNames(F.en)
    [] F.kind = "num" ->
         {{}, {0}, {F.w - 1}, 0 .. (F.w - 1), 0 .. (F.ty - 1), {F.ty - 1},
          {0, F.ty - 1}, {b \in {F.w} : b < F.ty},
          {b \in {F.w - 1, F.w} : b < F.ty}}

InitSet ==
  /\ FrameInit
  /\ \E F \in Fields :
       \E raw \in RawSamples(F), value \in ValueSamples(F) :
         codec = [pc |-> "before", F |-> F, raw |-> raw, value |-> value]

\* let out = r.with_F(value);
SetField ==
  /\ codec.pc = "before"
  /\ codec' = [pc |-> "set", F |-> codec.F, raw |-> codec.raw,
               value |-> codec.value,
               out |-> With(codec.F, codec.raw, codec.value)]
  /\ UNCHANGED codecFrame

\* let got = out.F();
GetField ==
  /\ codec.pc = "set"
  /\ codec' = [pc |-> "got", F |-> codec.F, raw |-> codec.raw,
               value |-> codec.value, out |-> codec.out,
               got |-> Get(codec.F, codec.out)]
  /\ UNCHANGED codecFrame

NextSet == SetField \/ GetField

SpecSet == InitSet /\ [][NextSet]_vars

(* --------------------------- register blocks --------------------------- *)

\* ai.rs StatusReg: the fields with a getter
AiStatusRegFields ==
  {Flag("ai::StatusReg", 32, "full", 0),
   Num("ai::StatusReg", 32, "dac_cntr", 1, 14, 16),
   Flag("ai::StatusReg", 32, "bitclock_state", 16),
   Flag("ai::StatusReg", 32, "abus_word_2", 19),
   Flag("ai::StatusReg", 32, "word_select", 21),
   Flag("ai::StatusReg", 32, "data_available", 22),
   Flag("ai::StatusReg", 32, "dfifo2_loaded", 23),
   Flag("ai::StatusReg", 32, "dma_enable", 25),
   Flag("ai::StatusReg", 32, "dma_request", 26),
   Flag("ai::StatusReg", 32, "dma_busy", 27),
   Flag("ai::StatusReg", 32, "busy", 30)}

\* si.rs StatusReg: the fields with a getter
SiStatusRegFields ==
  {Flag("si::StatusReg", 32, "dma_busy", 0),
   Flag("si::StatusReg", 32, "io_busy", 1),
   Flag("si::StatusReg", 32, "read_pending", 2),
   Flag("si::StatusReg", 32, "dma_error", 3),
   Num("si::StatusReg", 32, "pch_state", 4, 7, 8),
   Num("si::StatusReg", 32, "dma_state", 8, 11, 8),
   Flag("si::StatusReg", 32, "interrupt", 12)}

\* a cell of a RegisterBlock: `pub name: access<ty>`
Cell(name, access, ty) == [name |-> name, access |-> access, ty |-> ty]

\* the RegisterBlock structs, cells in declaration order
MiBlock ==
  <<Cell("mode", "RW", "ModeReg"), Cell("version", "RO", "VersionReg"),
    Cell("interrupt", "RO", "InterruptReg"), Cell("mask", "RW", "MaskReg")>>

ViBlock ==
  <<Cell("ctrl", "RW", "CtrlReg"), Cell("origin", "RW", "u32"),
    Cell("width", "RW", "u32"), Cell("v_intr", "RW", "u32"),
    Cell("v_current", "RW", "u32"), Cell("burst", "RW", "BurstReg"),
    Cell("v_sync", "RW", "u32"), Cell("h_sync", "RW", "HSyncReg"),
    Cell("h_sync_leap", "RW", "HSyncLeapReg"),
    Cell("h_video", "RW", "HVideoReg"), Cell("v_video", "RW", "VVideoReg"),
    Cell("v_burst", "RW", "VBurstReg"), Cell("x_scale", "RW", "XScaleReg"),
    Cell("y_scale", "RW", "YScaleReg"), Cell("test_addr", "RW", "u32"),
    Cell("staged_data", "RW", "u32")>>

AiBlock ==
  <<Cell("dram_addr", "WO", "u32"), Cell("length", "RW", "u32"),
    Cell("control", "WO", "u32"), Cell("status", "RW", "StatusReg"),
    Cell("dac_rate", "WO", "u32"), Cell("bit_rate", "WO", "u32")>>

PiBlock ==
  <<Cell("dram_addr", "RW", "u32"), Cell("cart_addr", "RW", "u32"),
    Cell("rd_len", "RW", "u32"), Cell("wr_len", "RW", "u32"),
    Cell("status", "RW", "StatusReg"), Cell("dom1_lat", "RW", "u32"),
    Cell("dom1_pwd", "RW", "u32"), Cell("dom1_pgs", "RW", "u32"),
    Cell("dom1_rls", "RW", "u32"), Cell("dom2_lat", "RW", "u32"),
    Cell("dom2_pwd", "RW", "u32"), Cell("dom2_pgs", "RW", "u32"),
    Cell("dom2_rls", "RW", "u32")>>

SiBlock ==
  <<Cell("dram_addr", "RW", "u32"), Cell("pif_ad_rd64b", "RW", "u32"),
    Cell("pif_ad_wr4b", "RW", "u32"), Cell("pif_ad_wr64b", "RW", "u32"),
    Cell("pif_ad_rd4b", "RW", "u32"), Cell("status", "RW", "StatusReg")>>

Devices == {"mi", "vi", "ai", "pi", "si"}

RegisterBlock(dev) ==
  CASE dev = "mi" -> MiBlock
    [] dev = "vi" -> ViBlock
    [] dev = "ai" -> AiBlock
    [] dev = "pi" -> PiBlock
    [] dev = "si" -> SiBlock

CellNames(dev) == {RegisterBlock(dev)[i].name : i \in DOMAIN RegisterBlock(dev)}

\* (&self.0 as *const T).read_volatile(): one load of the cell's width
LoadHalf(m, r) == {b \in m[r] : b < 16}

Load(m, r) == m[r]

\* the bitfield-typed cells a field is read from after a write
BlockFields ==
  {[dev |-> "vi", cell |-> "ctrl", F |-> F] : F \in CtrlRegFields}
    \cup {[dev |-> "ai", cell |-> "status", F |-> F] : F \in AiStatusRegFields}
    \cup {[dev |-> "si", cell |-> "status", F |-> F] : F \in SiStatusRegFields}

\* the memory behind a block, every cell holding the same prior contents
BlockMemory(dev, prior) == [n \in CellNames(dev) |-> prior]

InitBlock ==
  /\ FrameInit
  /\ \E bf \in BlockFields :
       \E raw \in RawSamples(bf.F) \cup {BitsOf(10, 4)},
          prior \in {{}, 0 .. 31} :
         codec = [pc |-> "mapped", dev |-> bf.dev, cell |-> bf.cell,
                  F |-> bf.F, raw |-> raw,
                  block |-> BlockMemory(bf.dev, prior)]

\* block.cell.write(Reg(raw));
BlockWrite ==
  /\ codec.pc = "mapped"
  /\ codec' = [codec EXCEPT !.pc = "written",
                            !.block = Store(@, codec.cell, codec.raw)]
  /\ UNCHANGED codecFrame

\* let whole = block.cell.read(); let field = whole.F();
BlockRead ==
  /\ codec.pc = "written"
  /\ LET whole == Load(codec.block, codec.cell)
     IN codec' = [pc |-> "read", dev |-> codec.dev, cell |-> codec.cell,
                  F |-> codec.F, raw |-> codec.raw, block |-> codec.block,
                  whole |-> whole, field |-> Get(codec.F, whole)]
  /\ UNCHANGED codecFrame

NextBlock == BlockWrite \/ BlockRead

SpecBlock == InitBlock /\ [][NextBlock]_vars

(* ------------------------- dual-view registers ------------------------- *)

ModeRegReadFields ==
  {Num("ModeRegRead", 32, "init_length", 0, 6, 8),
   Flag("ModeRegRead", 32, "init_mode", 7),
   Flag("ModeRegRead", 32, "ebus_test_mode", 8),
   Flag("ModeRegRead", 32, "rdram_register_mode", 9)}

MaskRegReadFields ==
  {Flag("MaskRegRead", 32, "sp_interrupt_mask", 0),
   Flag("MaskRegRead", 32, "si_interrupt_mask", 1),
   Flag("MaskRegRead", 32, "ai_interrupt_mask", 2),
   Flag("MaskRegRead", 32, "vi_interrupt_mask", 3),
   Flag("MaskRegRead", 32, "pi_interrupt_mask", 4),
   Flag("MaskRegRead", 32, "dp_interrupt_mask", 5)}

PiStatusRegReadFields ==
  {Flag("StatusRegRead", 32, "dma_busy", 0),
   Flag("StatusRegRead", 32, "io_busy", 1),
   Flag("StatusRegRead", 32, "dma_error", 2),
   Flag("StatusRegRead", 32, "interrupt", 3)}

\* the registers whose cell type is a union of raw, read and write views;
\* defined is the set of bits the fields of the write view cover
DualViews ==
  {[dev |-> "mi", cell |-> "mode", readFields |-> ModeRegReadFields,
    defined |-> 0 .. 13],
   [dev |-> "mi", cell |-> "mask", readFields |-> MaskRegReadFields,
    defined |-> 0 .. 11],
   [dev |-> "pi", cell |-> "status", readFields |-> PiStatusRegReadFields,
    defined |-> 0 .. 1]}

\* the operations the type of a cell has
CellOpsAll(access) == {"read", "write", "modify"}

CellOps(access) ==
  CASE access = "RW" -> {"read", "write", "modify"}
    [] access = "RO" -> {"read"}
    [] access = "WO" -> {"write"}

\* the cell called name of a device's block
CellOf(dev, name) ==
  LET blk == RegisterBlock(dev)
  IN blk[CHOOSE i \in DOMAIN blk : blk[i].name = name]

\* the module-level functions regfn_rw_union! generates for a register
UnionFns == {"read", "write"}

\* the 32 bits of a union value built as `Union { view: data }`
UnionBitsDefined(dv, view, data) ==
  IF view = "write" THEN data \cap dv.defined ELSE data

UnionBits(dv, view, data) == data

\* the bits the `.read` view of a loaded union value is made of
ReadSourceHidden(loaded, hidden) == hidden

ReadSource(loaded, hidden) == loaded

\* a ModeRegRead / MaskRegRead / StatusRegRead value: its 32 bits and what
\* its getters return
ReadShape(dv, bits) ==
  [raw |-> bits, fields |-> [F \in dv.readFields |-> Get(F, bits)]]

\* the 32-bit values handed to a write
ShapeSamples(dv) == {{}, {0}, dv.defined, {31}, {0, 31}}

NoAccess == [kind |-> "none", via |-> "-", view |-> "-", data |-> {},
             before |-> {}]

InitUnion ==
  /\ FrameInit
  /\ \E dv \in DualViews, prior \in {{}, 0 .. 31} :
       codec = [pc |-> "ready", dv |-> dv,
                block |-> BlockMemory(dv.dev, prior), hidden |-> {},
                by |-> "reset", log |-> {}, n |-> 0, last |-> NoAccess]

\* mode() / mi.mode.read().read
UnionRead(via) ==
  /\ codec.pc = "ready"
  /\ codec.last.kind # "read"
  /\ via = "static" => "read" \in UnionFns
  /\ via = "cell" => "read" \in CellOps(CellOf(codec.dv.dev, codec.dv.cell).access)
  /\ LET loaded == Load(codec.block, codec.dv.cell)
         result == ReadShape(codec.dv, ReadSource(loaded, codec.hidden))
     IN codec' = [codec EXCEPT
                    !.log = @ \cup {[stored |-> codec.block[codec.dv.cell],
                                     result |-> result, by |-> codec.by]},
                    !.last = [kind |-> "read", via |-> via, view |-> "read",
                              data |-> loaded, before |-> loaded]]
  /\ UNCHANGED codecFrame

\* set_mode(ws) / mi.mode.write(ModeReg { write: ws }) /
\* mi.mode.write(ModeReg { raw: data })
UnionWrite(via, view, data) ==
  /\ codec.pc = "ready"
  /\ codec.n < MaxCalls
  /\ via = "static" => ("write" \in UnionFns /\ view = "write")
  /\ via = "cell" => "write" \in CellOps(CellOf(codec.dv.dev, codec.dv.cell).access)
  /\ codec' = [codec EXCEPT
                 !.n = @ + 1,
                 !.block = Store(@, codec.dv.cell,
                                 UnionBits(codec.dv, view, data)),
                 !.hidden = IF view = "write" THEN data ELSE @,
                 !.by = view,
                 !.last = [kind |-> "write", via |-> via, view |-> view,
                           data |-> data,
                           before |-> codec.block[codec.dv.cell]]]
  /\ UNCHANGED codecFrame

\* mi.mode.modify(|m| m)
UnionModify ==
  /\ codec.pc = "ready"
  /\ codec.n < MaxCalls
  /\ "modify" \in CellOps(CellOf(codec.dv.dev, codec.dv.cell).access)
  /\ LET loaded == Load(codec.block, codec.dv.cell)
     IN codec' = [codec EXCEPT
                    !.n = @ + 1,
                    !.block = Store(@, codec.dv.cell, loaded),
                    !.last = [kind |-> "modify", via |-> "cell",
                              view |-> "raw", data |-> loaded,
                              before |-> loaded]]
  /\ UNCHANGED codecFrame

NextUnion ==
  \/ \E via \in {"static", "cell"} : UnionRead(via)
  \/ \E via \in {"static", "cell"}, view \in {"write", "raw"} :
       \E data \in ShapeSamples(codec.dv) : UnionWrite(via, view, data)
  \/ UnionModify

SpecUnion == InitUnion /\ [][NextUnion]_vars

(* ---------------------------- block layout ----------------------------- *)

\* size in bytes of a cell: RW<T>, RO<T> and WO<T> wrap one T, and every T
\* in the blocks is a u32, a bitfield struct over u32 or a union of those
CellSize(ty) == 4

\* #[repr(C)]: the byte offset of the i-th cell is the sum of the sizes of
\* the cells declared before it
RECURSIVE CellOffset(_, _)
CellOffset(dev, i) ==
  IF i = 1
    THEN 0
    ELSE CellOffset(dev, i - 1) + CellSize(RegisterBlock(dev)[i - 1].ty)

\* memory.rs: reg_mi!, reg_vi! and reg_si! give each register its offset
\* from the device's base address
MemoryTable(dev) ==
  CASE dev = "mi" ->
         [mode |-> 0, version |-> 4, interrupt |-> 8, mask |-> 12]
    [] dev = "vi" ->
         [ctrl |-> 0, origin |-> 4, width |-> 8, v_intr |-> 12,
          v_current |-> 16, burst |-> 20, v_sync |-> 24, h_sync |-> 28,
          h_sync_leap |-> 32, h_video |-> 36, v_video |-> 40,
          v_burst |-> 44, x_scale |-> 48, y_scale |-> 52,
          test_addr |-> 56, staged_data |-> 60]
    [] dev = "si" ->
         [dram_addr |-> 0, pif_ad_rd64b |-> 4, pif_ad_wr4b |-> 8,
          pif_ad_wr64b |-> 16, pif_ad_rd4b |-> 20, status |-> 24]

\* the devices memory.rs has a table for
TableDevices == {"mi", "vi", "si"}

\* the byte offsets of the words of a device's region
RegionOffsets == {4 * k : k \in 0 .. 16}

InitLayout ==
  /\ FrameInit
  /\ \E dev \in TableDevices :
       \E i \in DOMAIN RegisterBlock(dev), data \in {{0}, {31}, {1, 3}, 0 .. 31} :
         codec = [pc |-> "mapped", dev |-> dev, i |-> i, data |-> data,
                  name |-> RegisterBlock(dev)[i].name,
                  region |-> [a \in RegionOffsets |-> {}]]

\* a store through the i-th cell of the block placed at the base address
CellStore ==
  /\ codec.pc = "mapped"
  /\ LET at == CellOffset(codec.dev, codec.i)
     IN codec' = [pc |-> "stored", dev |-> codec.dev, i |-> codec.i,
                  data |-> codec.data, name |-> codec.name, at |-> at,
                  region |-> Store(codec.region, at, codec.data)]
  /\ UNCHANGED codecFrame

\* a load through the register's pointer constant of memory.rs
TableLoad ==
  /\ codec.pc = "stored"
  /\ LET ptr == MemoryTable(codec.dev)[codec.name]
     IN codec' = [pc |-> "loaded", dev |-> codec.dev, i |-> codec.i,
                  data |-> codec.data, name |-> codec.name, at |-> codec.at,
                  region |-> codec.region, ptr |-> ptr,
                  got |-> Load(codec.region, ptr)]
  /\ UNCHANGED codecFrame

NextLayout == CellStore \/ TableLoad

SpecLayout == InitLayout /\ [][NextLayout]_vars

(* ------------------------- privileged transport ----------------------- *)

\* a general register holds 64 bits, a set of bit positions 0 .. 63

\* dsll32 rd, rt, 0: shift left by 32, bits shifted out are lost
dsll32(r) == {b + 32 : b \in {x \in r : x < 32}}

\* dsrl32 rd, rt, 0: logical shift right by 32
dsrl32(r) == {b - 32 : b \in {x \in r : x >= 32}}

\* add rd, $0, rt: the 32-bit sum of zero and rt, sign-extended to 64
\* bits; adding zero never overflows
add_zero(r) ==
  {b \in r : b < 32} \cup (IF 31 \in r THEN 32 .. 63 ELSE {})

\* in(reg) x for a u32 x: the register's low half is x, its high half is
\* whatever the compiler left there (up)
InReg(x, up) == {b \in x : b < 32} \cup up

\* out(reg) to a u32: the low half of the register
OutReg(r) == {b \in r : b < 32}

\* value as u32, (value >> 32) as u32
LowWord(v) == {b \in v : b < 32}

HighWord(v) == {b - 32 : b \in {x \in v : x >= 32}}

\* dsll32 tmp2, lo, 0; dsrl32 tmp2, tmp2, 0
ZeroExtendSkipped(r) == r

ZeroExtend(r) == dsrl32(dsll32(r))

\* the register handed to dmtc0 / dmtc1 by write_u64
Composed(lo, hi) == dsll32(hi) \cup ZeroExtend(lo)

\* ((value_hi as u64) << 32) | (value_lo as u64)
Combined(value_lo, value_hi) == {b + 32 : b \in value_hi} \cup value_lo

\* the coprocessor registers accessed as 64 bits wide
CpRegs ==
  {<<"cp0", 4>>, <<"cp0", 10>>, <<"cp0", 14>>, <<"cp0", 20>>, <<"cp0", 30>>,
   <<"cp1", 0>>}

\* the 64-bit values that are written
WideSamples ==
  {{}, {0}, {31}, {32}, {63}, {31, 32}, {31, 63}, 0 .. 31, 32 .. 63,
   0 .. 63, 0 .. 30, {0, 33}, (0 .. 63) \ {31}, (0 .. 63) \ {32}}

\* what the high half of an input register may hold
HighHalves == {{}, 32 .. 63}

InitTransport ==
  /\ FrameInit
  /\ \E idx \in CpRegs, v \in WideSamples, prior \in {{}, 0 .. 63} :
       codec = [pc |-> "call", idx |-> idx, v |-> v,
                cpr |-> [r \in CpRegs |-> prior]]

\* write_u64::<INDEX>(value)
write_u64(up_lo, up_hi) ==
  /\ codec.pc = "call"
  /\ LET lo == InReg(LowWord(codec.v), up_lo)
         hi == InReg(HighWord(codec.v), up_hi)
     IN codec' = [pc |-> "written", idx |-> codec.idx, v |-> codec.v,
                  lo |-> lo, hi |-> hi,
                  cpr |-> Store(codec.cpr, codec.idx, Composed(lo, hi))]
  /\ UNCHANGED codecFrame

\* read_u64::<INDEX>()
read_u64 ==
  /\ codec.pc = "written"
  /\ LET tmp == Load(codec.cpr, codec.idx)
         value_lo == OutReg(add_zero(tmp))
         value_hi == OutReg(dsrl32(tmp))
     IN codec' = [pc |-> "read", idx |-> codec.idx, v |-> codec.v,
                  lo |-> codec.lo, hi |-> codec.hi, cpr |-> codec.cpr,
                  got |-> Combined(value_lo, value_hi)]
  /\ UNCHANGED codecFrame

NextTransport ==
  \/ \E up_lo \in HighHalves, up_hi \in HighHalves : write_u64(up_lo, up_hi)
  \/ read_u64

SpecTransport == InitTransport /\ [][NextTransport]_vars

(* ------------------ wide transport under an interrupt ------------------ *)

\* the values a 64-bit register holds or is given; they differ pairwise in
\* the low half and in the high half
WholeValues == {{0, 33}, {31}, 0 .. 63, {1, 32, 63}}

\* the operand of `add {lo}, $0, {tmp}`: the temporary filled by dmfc0
LoOperandReread(tmp, reg) == reg

LoOperand(tmp, reg) == tmp

\* the operand of dmtc0: the temporary the whole value was composed in
StoreOperand(tmp, reg) == tmp

InitWideIrq ==
  /\ FrameInit
  /\ \E kind \in {"read", "write"}, idx \in {<<"cp0", 10>>, <<"cp1", 0>>} :
       \E v0 \in WholeValues, v \in WholeValues :
         /\ kind = "read" => v = v0
         /\ codec = [pc |-> "start", kind |-> kind, idx |-> idx, v |-> v,
                     reg |-> v0, whole |-> {v0}, tmp |-> {}, lo |-> {},
                     hi |-> {}, got |-> {}, nPriv |-> 0, irqAt |-> "-"]

\* dmfc0 {tmp}, ${cp_reg}
Dmfc ==
  /\ codec.pc = "start"
  /\ codec.kind = "read"
  /\ codec' = [codec EXCEPT !.pc = "fetched", !.tmp = codec.reg,
                            !.nPriv = @ + 1]
  /\ UNCHANGED codecFrame

\* add {lo}, $0, {tmp}; dsrl32 {hi}, {tmp}, 0
SplitHalves ==
  /\ codec.pc = "fetched"
  /\ codec' = [codec EXCEPT
                 !.pc = "split",
                 !.lo = OutReg(add_zero(LoOperand(codec.tmp, codec.reg))),
                 !.hi = OutReg(dsrl32(codec.tmp))]
  /\ UNCHANGED codecFrame

\* ((value_hi as u64) << 32) | (value_lo as u64)
ReturnWide ==
  /\ codec.pc = "split"
  /\ codec' = [codec EXCEPT !.pc = "done",
                            !.got = Combined(codec.lo, codec.hi)]
  /\ UNCHANGED codecFrame

\* dsll32 {tmp}, {hi}, 0; dsll32 {tmp2}, {lo}, 0; dsrl32 {tmp2}, {tmp2}, 0;
\* or {tmp}, {tmp}, {tmp2}
ComposeHalves(up_lo, up_hi) ==
  /\ codec.pc = "start"
  /\ codec.kind = "write"
  /\ codec' = [codec EXCEPT
                 !.pc = "composed",
                 !.tmp = Composed(InReg(LowWord(codec.v), up_lo),
                                  InReg(HighWord(codec.v), up_hi))]
  /\ UNCHANGED codecFrame

\* dmtc0 {tmp}, ${cp_reg}
Dmtc ==
  /\ codec.pc = "composed"
  /\ codec' = [codec EXCEPT !.pc = "done",
                            !.reg = StoreOperand(codec.tmp, codec.reg),
                            !.whole = @ \cup {codec.v},
                            !.nPriv = @ + 1]
  /\ UNCHANGED codecFrame

\* an interrupt is taken between two instructions of the main flow; its
\* handler writes w to the same register with write_u64, returns, and the
\* general registers of the main flow are as they were
IrqWriteWide(w) ==
  /\ codec.pc # "done"
  /\ codec.irqAt = "-"
  /\ codec' = [codec EXCEPT
                 !.reg = Composed(InReg(LowWord(w), {}),
                                  InReg(HighWord(w), {})),
                 !.whole = @ \cup {w},
                 !.irqAt = codec.pc]
  /\ UNCHANGED codecFrame

NextWideIrq ==
  \/ Dmfc \/ SplitHalves \/ ReturnWide
  \/ \E up_lo \in HighHalves, up_hi \in HighHalves : ComposeHalves(up_lo, up_hi)
  \/ Dmtc
  \/ \E w \in WholeValues : IrqWriteWide(w)

SpecWideIrq == InitWideIrq /\ [][NextWideIrq]_vars

(* ---------------------- coprocessor register files --------------------- *)

\* the register file a coprocessor move instruction reaches: the CP0
\* registers, the CP1 general (floating-point data) registers, or the CP1
\* control registers
InsnFile(insn) ==
  CASE insn \in {"mfc0", "mtc0", "dmfc0", "dmtc0"} -> "cp0"
    [] insn \in {"mfc1", "mtc1", "dmfc1", "dmtc1"} -> "fpr"
    [] insn \in {"cfc1", "ctc1"} -> "fcr"

\* the move instruction in the asm! block of each transport function
Insn(module, fn) ==
  CASE module = "cp0" /\ fn = "read_u32" -> "mfc0"
    [] module = "cp0" /\ fn = "read_u64" -> "dmfc0"
    [] module = "cp0" /\ fn = "write_u32" -> "mtc0"
    [] module = "cp0" /\ fn = "write_u64" -> "dmtc0"
    [] module = "cp1" /\ fn = "read_u32" -> "mfc1"
    [] module = "cp1" /\ fn = "read_u64" -> "dmfc1"
    [] module = "cp1" /\ fn = "read_fcr" -> "cfc1"
    [] module = "cp1" /\ fn = "write_u32" -> "mtc1"
    [] module = "cp1" /\ fn = "write_u64" -> "dmtc1"
    [] module = "cp1" /\ fn = "write_fcr" -> "mtc1"

\* a 32-bit word sign-extended to the 64 bits of a register
SignExtend(x) ==
  {b \in x : b < 32} \cup (IF 31 \in x THEN 32 .. 63 ELSE {})

\* what a move-to instruction leaves in the register that held old: the
\* doubleword moves give it all 64 bits of the general register, mtc0 the
\* sign-extended low word, mtc1 and ctc1 the low word (mtc1 leaving the
\* high word of the data register as it was)
MoveTo(insn, old, gpr) ==
  CASE insn \in {"dmtc0", "dmtc1"} -> gpr
    [] insn = "mtc0" -> SignExtend(gpr)
    [] insn = "mtc1" -> {b \in gpr : b < 32} \cup {b \in old : b >= 32}
    [] insn = "ctc1" -> {b \in gpr : b < 32}

\* what a move-from instruction leaves in the general register
MoveFrom(insn, reg) ==
  CASE insn \in {"dmfc0", "dmfc1"} -> reg
    [] insn \in {"mfc0", "mfc1", "cfc1"} -> SignExtend(reg)

\* the registers of the three files that the model keeps
CpFile ==
  {<<"cp0", i>> : i \in {0, 1, 2, 3, 4, 5, 6, 8, 9, 10, 11, 12, 13, 14, 15,
                         16, 17, 18, 19, 20, 26, 28, 30}}
    \cup {<<"fpr", 0>>, <<"fpr", 31>>, <<"fcr", 0>>, <<"fcr", 31>>}

\* read_u32 / read_u64 / read_fcr ::<idx>() of a module, on register files
\* regs: the value returned
CpRead(module, fn, idx, regs) ==
  LET insn == Insn(module, fn)
      tmp == MoveFrom(insn, regs[<<InsnFile(insn), idx>>])
  IN IF fn = "read_u64"
       THEN Combined(OutReg(add_zero(tmp)), OutReg(dsrl32(tmp)))
       ELSE OutReg(tmp)

\* write_u32 / write_u64 / write_fcr ::<idx>(value): the register files
\* afterwards
CpWrite(module, fn, idx, value, regs) ==
  LET insn == Insn(module, fn)
      gpr == IF fn = "write_u64"
               THEN Composed(InReg(LowWord(value), {}),
                             InReg(HighWord(value), {}))
               ELSE SignExtend(value)
      r == <<InsnFile(insn), idx>>
  IN [regs EXCEPT ![r] = MoveTo(insn, regs[r], gpr)]

\* an accessor family generated by cp0fn_ro!/cp0fn_rw!/cp1fn_ro!/cp1fn_rw!:
\* module, register name, transfer width, index, access, and the file of
\* the register it is named after
Accessor(module, reg, width, index, access) ==
  [module |-> module, reg |-> reg, width |-> width, index |-> index,
   access |-> access,
   named |-> IF module = "cp0" THEN "cp0" ELSE "fcr"]

Cp0Accessors ==
  {Accessor("cp0", "index", "u32", 0, "rw"),
   Accessor("cp0", "random", "u32", 1, "rw"),
   Accessor("cp0", "entrylo0", "u32", 2, "rw"),
   Accessor("cp0", "entrylo1", "u32", 3, "rw"),
   Accessor("cp0", "context", "u64", 4, "rw"),
   Accessor("cp0", "pagemask", "u32", 5, "rw"),
   Accessor("cp0", "wired", "u32", 6, "rw"),
   Accessor("cp0", "badvaddr", "u64", 8, "ro"),
   Accessor("cp0", "count", "u32", 9, "rw"),
   Accessor("cp0", "entryhi", "u64", 10, "rw"),
   Accessor("cp0", "compare", "u32", 11, "rw"),
   Accessor("cp0", "status", "u32", 12, "rw"),
   Accessor("cp0", "cause", "u32", 13, "rw"),
   Accessor("cp0", "exception_pc", "u64", 14, "rw"),
   Accessor("cp0", "processor_revision_id", "u32", 15, "ro"),
   Accessor("cp0", "config", "u32", 16, "rw"),
   Accessor("cp0", "load_linked_address", "u32", 17, "rw"),
   Accessor("cp0", "watchlo", "u32", 18, "rw"),
   Accessor("cp0", "watchhi", "u32", 19, "rw"),
   Accessor("cp0", "xcontext", "u64", 20, "rw"),
   Accessor("cp0", "parity_error", "u32", 26, "rw"),
   Accessor("cp0", "taglo", "u32", 28, "rw"),
   Accessor("cp0", "error_exception_pc", "u64", 30, "rw")}

Cp1Accessors ==
  {Accessor("cp1", "revision_implementation", "u32", 0, "ro"),
   Accessor("cp1", "control_status", "u32", 31, "rw")}

Accessors == Cp0Accessors \cup Cp1Accessors

RwAccessors == {A \in Accessors : A.access = "rw"}

\* <reg>(): [<read_ $width>]::<$index>().into()
GetReg(A, regs) ==
  CpRead(A.module, IF A.width = "u32" THEN "read_u32" ELSE "read_u64",
         A.index, regs)

\* set_<reg>(data): [<write_ $width>]::<$index>(data.into())
SetReg(A, data, regs) ==
  CpWrite(A.module, IF A.width = "u32" THEN "write_u32" ELSE "write_u64",
          A.index, data, regs)

\* the register an accessor is named after, seen at the accessor's width
NamedValue(A, regs) ==
  LET reg == regs[<<A.named, A.index>>]
  IN IF A.width = "u32" THEN {b \in reg : b < 32} ELSE reg

\* register files to start from: the three files hold different patterns
CpFiles ==
  {[r \in CpFile |-> CASE r[1] = "cp0" -> p[1]
                       [] r[1] = "fpr" -> p[2]
                       [] r[1] = "fcr" -> p[3]] :
     p \in {<<{}, {1}, {2}>>, <<{0, 31}, {3}, {0, 2}>>}}

\* closures handed to modify_<reg>
CpFuncs == {"keep", "set4", "clear", "only5"}

ApplyCp(f, v) ==
  CASE f = "keep" -> v
    [] f = "set4" -> v \cup {4}
    [] f = "clear" -> {}
    [] f = "only5" -> {5}

(* -------------------- modify of a privileged register ------------------ *)

\* func($reg()): the closure gets the value the accessor returned
CpModifyInput(got, now) == got

InitCpModify ==
  /\ FrameInit
  /\ \E A \in RwAccessors, f \in CpFuncs, regs \in CpFiles,
        via \in {"function", "method"} :
       codec = [pc |-> "call", A |-> A, f |-> f, via |-> via,
                regs |-> regs, regs0 |-> regs, got |-> {}, moves |-> <<>>,
                irqAt |-> "-"]

\* $reg() inside modify_<reg>(func)
CpModifyRead ==
  /\ codec.pc = "call"
  /\ codec' = [codec EXCEPT
                 !.pc = "got",
                 !.got = GetReg(codec.A, codec.regs),
                 !.moves = Append(@, <<"from", codec.A.index>>)]
  /\ UNCHANGED codecFrame

\* set_<reg>(func(..)) inside modify_<reg>(func)
CpModifyWrite ==
  /\ codec.pc = "got"
  /\ LET input == CpModifyInput(codec.got, GetReg(codec.A, codec.regs))
     IN codec' = [codec EXCEPT
                    !.pc = "done",
                    !.regs = SetReg(codec.A, ApplyCp(codec.f, input), @),
                    !.moves = Append(@, <<"to", codec.A.index>>)]
  /\ UNCHANGED codecFrame

\* an interrupt handler calls set_<reg>(w) on the same register and returns
IrqSetReg(w) ==
  /\ codec.pc \in {"call", "got"}
  /\ codec.irqAt = "-"
  /\ codec' = [codec EXCEPT !.regs = SetReg(codec.A, w, @),
                            !.irqAt = codec.pc]
  /\ UNCHANGED codecFrame

NextCpModify ==
  \/ CpModifyRead
  \/ CpModifyWrite
  \/ \E w \in {{6}, {0, 31}} : IrqSetReg(w)

SpecCpModify == InitCpModify /\ [][NextCpModify]_vars

(* ----------------------- CP1 control registers -------------------------- *)

ControlStatus == CHOOSE A \in Cp1Accessors : A.reg = "control_status"

RevisionImplementation ==
  CHOOSE A \in Cp1Accessors : A.reg = "revision_implementation"

\* a completed call: what was called, on which index, with which argument,
\* what it returned and the register files it found
Call(kind, idx, v, got, before) ==
  [kind |-> kind, idx |-> idx, v |-> v, got |-> got, before |-> before]

InitFcr ==
  /\ FrameInit
  /\ \E regs \in CpFiles :
       codec = [pc |-> "ready", regs |-> regs, n |-> 0,
                last |-> Call("none", 0, {}, {}, regs),
                prev |-> Call("none", 0, {}, {}, regs)]

\* cp1::write_fcr::<INDEX>(value)
write_fcr(idx, v) ==
  /\ codec.pc = "ready"
  /\ codec.n < MaxCalls
  /\ codec' = [codec EXCEPT
                 !.n = @ + 1,
                 !.regs = CpWrite("cp1", "write_fcr", idx, v, @),
                 !.prev = codec.last,
                 !.last = Call("write_fcr", idx, v, {}, codec.regs)]
  /\ UNCHANGED codecFrame

\* cp1::read_fcr::<INDEX>()
read_fcr(idx) ==
  /\ codec.pc = "ready"
  /\ codec.n < MaxCalls
  /\ codec' = [codec EXCEPT
                 !.n = @ + 1,
                 !.prev = codec.last,
                 !.last = Call("read_fcr", idx, {},
                               CpRead("cp1", "read_fcr", idx, codec.regs),
                               codec.regs)]
  /\ UNCHANGED codecFrame

\* cp1::control_status()
control_status ==
  /\ codec.pc = "ready"
  /\ codec.n < MaxCalls
  /\ codec' = [codec EXCEPT
                 !.n = @ + 1,
                 !.prev = codec.last,
                 !.last = Call("control_status", ControlStatus.index, {},
                               GetReg(ControlStatus, codec.regs),
                               codec.regs)]
  /\ UNCHANGED codecFrame

\* cp1::set_control_status(data)
set_control_status(v) ==
  /\ codec.pc = "ready"
  /\ codec.n < MaxCalls
  /\ codec' = [codec EXCEPT
                 !.n = @ + 1,
                 !.regs = SetReg(ControlStatus, v, @),
                 !.prev = codec.last,
                 !.last = Call("set_control_status", ControlStatus.index, v,
                               {}, codec.regs)]
  /\ UNCHANGED codecFrame

\* cp1::revision_implementation()
revision_implementation ==
  /\ codec.pc = "ready"
  /\ codec.n < MaxCalls
  /\ codec' = [codec EXCEPT
                 !.n = @ + 1,
                 !.prev = codec.last,
                 !.last = Call("revision_implementation",
                               RevisionImplementation.index, {},
                               GetReg(RevisionImplementation, codec.regs),
                               codec.regs)]
  /\ UNCHANGED codecFrame

NextFcr ==
  \/ \E v \in {{6}, {0, 31}} : write_fcr(31, v)
  \/ \E idx \in {0, 31} : read_fcr(idx)
  \/ control_status
  \/ \E v \in {{6}, {0, 31}} : set_control_status(v)
  \/ revision_implementation

SpecFcr == InitFcr /\ [][NextFcr]_vars

(* ------------------ static functions and block methods ----------------- *)

\* the regfn_*! invocations: macro, block (by its device) and register
RegFns ==
  {[macro |-> "regfn_rw_union", dev |-> "mi", reg |-> "mode"],
   [macro |-> "regfn_ro", dev |-> "mi", reg |-> "version"],
   [macro |-> "regfn_ro", dev |-> "mi", reg |-> "interrupt"],
   [macro |-> "regfn_rw_union", dev |-> "mi", reg |-> "mask"],
   [macro |-> "regfn_rw_union", dev |-> "pi", reg |-> "status"],
   [macro |-> "regfn_wo", dev |-> "ai", reg |-> "dram_addr"],
   [macro |-> "regfn_rw", dev |-> "ai", reg |-> "length"],
   [macro |-> "regfn_wo", dev |-> "ai", reg |-> "control"],
   [macro |-> "regfn_rw", dev |-> "ai", reg |-> "status"],
   [macro |-> "regfn_wo", dev |-> "ai", reg |-> "dac_rate"],
   [macro |-> "regfn_wo", dev |-> "ai", reg |-> "bit_rate"]}
    \cup {[macro |-> "regfn_rw", dev |-> "vi", reg |-> n] : n \in CellNames("vi")}
    \cup {[macro |-> "regfn_rw", dev |-> "si", reg |-> n] : n \in CellNames("si")}

\* the functions a macro generates: <reg>(), set_<reg>(), modify_<reg>()
RegFnOps(macro) ==
  CASE macro = "regfn_ro" -> {"read"}
    [] macro = "regfn_wo" -> {"write"}
    [] macro = "regfn_rw" -> {"read", "write", "modify"}
    [] macro = "regfn_rw_union" -> {"read", "write"}

\* $block::new().$reg: the cell a generated function works on
RegFnCellFirst(fn) == RegisterBlock(fn.dev)[1].name

RegFnCell(fn) == fn.reg

\* read(), write(data) or modify(func) on the cell called name of a block
\* over memory m: the memory afterwards, the loads and stores made, each
\* with the byte offset of the cell in the block, and the value returned
CellRun(o, m, dev, name, arg) ==
  LET blk == RegisterBlock(dev)
      at == CellOffset(dev, CHOOSE i \in DOMAIN blk : blk[i].name = name)
  IN CASE o = "read" ->
            [mem |-> m, acc |-> <<<<"load", dev, at>>>>, ret |-> Load(m, name)]
       [] o = "write" ->
            [mem |-> Store(m, name, arg), acc |-> <<<<"store", dev, at>>>>,
             ret |-> {}]
       [] o = "modify" ->
            [mem |-> Store(m, name, ApplyCp(arg, Load(m, name))),
             acc |-> <<<<"load", dev, at>>, <<"store", dev, at>>>>,
             ret |-> {}]

NotRun == [mem |-> <<>>, acc |-> <<>>, ret |-> {}]

InitEquiv ==
  /\ FrameInit
  /\ \E fn \in RegFns :
       \E o \in RegFnOps(fn.macro), prior \in {{}, {7}, 0 .. 31} :
         \E arg \in (IF o = "modify" THEN CpFuncs
                     ELSE IF o = "write" THEN {{0}, {3, 31}} ELSE {{}}) :
           codec = [pc |-> "call", fn |-> fn, o |-> o, arg |-> arg,
                    mem |-> [n \in CellNames(fn.dev) |->
                               IF n = fn.reg THEN prior ELSE {1}],
                    static |-> NotRun, method |-> NotRun]

\* <reg>() / set_<reg>(data) / modify_<reg>(func) of the module
StaticCall ==
  /\ codec.pc = "call"
  /\ codec.static = NotRun
  /\ codec' = [codec EXCEPT
                 !.static = CellRun(codec.o, codec.mem, codec.fn.dev,
                                    RegFnCell(codec.fn), codec.arg)]
  /\ UNCHANGED codecFrame

\* block.<reg>.read() / .write(data) / .modify(func) on a block handle of
\* the device, from the same memory contents
MethodCall ==
  /\ codec.pc = "call"
  /\ codec.method = NotRun
  /\ codec.o \in CellOps(CellOf(codec.fn.dev, codec.fn.reg).access)
  /\ codec' = [codec EXCEPT
                 !.method = CellRun(codec.o, codec.mem, codec.fn.dev,
                                    codec.fn.reg, codec.arg)]
  /\ UNCHANGED codecFrame

NextEquiv == StaticCall \/ MethodCall

SpecEquiv == InitEquiv /\ [][NextEquiv]_vars

(* --------------------------- the whole machine ------------------------- *)

\* cells of every access type from every block: <<device, cell name>>
MachineCells ==
  {<<"mi", "mode">>, <<"mi", "version">>, <<"vi", "origin">>,
   <<"ai", "dram_addr">>, <<"ai", "length">>, <<"pi", "status">>}

\* the cells whose type has the operation o
CellsWith(o) ==
  {c \in MachineCells : o \in CellOps(CellOf(c[1], c[2]).access)}

\* the privileged accessors used: 32 and 64 bits wide, read-only and
\* read-write, of CP0 and of CP1
MachineAccessors ==
  {A \in Accessors :
     A.reg \in {"status", "entryhi", "badvaddr", "control_status",
                "revision_implementation"}}

InitMachine ==
  /\ FrameInit
  /\ \E regs \in CpFiles, prior \in {{1}, {0, 31}} :
       codec = [pc |-> "machine", mm |-> [c \in MachineCells |-> prior],
                regs |-> regs, n |-> 0, last |-> "none", got |-> {}]

\* block.cell.read() on an RO or RW cell
CellReadOp(c) ==
  /\ codec.pc = "machine"
  /\ codec.n < MaxOps
  /\ c \in CellsWith("read")
  /\ codec' = [codec EXCEPT !.n = @ + 1, !.last = "read",
                            !.got = Load(codec.mm, c)]
  /\ UNCHANGED codecFrame

\* block.cell.write(v) on an RW or WO cell
CellWriteOp(c, v) ==
  /\ codec.pc = "machine"
  /\ codec.n < MaxOps
  /\ c \in CellsWith("write")
  /\ codec' = [codec EXCEPT !.n = @ + 1, !.last = "write",
                            !.mm = Store(@, c, v)]
  /\ UNCHANGED codecFrame

\* block.cell.modify(func) on an RW cell
CellModifyOp(c, f) ==
  /\ codec.pc = "machine"
  /\ codec.n < MaxOps
  /\ c \in CellsWith("modify")
  /\ codec' = [codec EXCEPT
                 !.n = @ + 1, !.last = "modify",
                 !.mm = Store(@, c, ApplyCp(f, Load(codec.mm, c)))]
  /\ UNCHANGED codecFrame

\* <reg>() of cp0 / cp1
PrivRead(A) ==
  /\ codec.pc = "machine"
  /\ codec.n < MaxOps
  /\ codec' = [codec EXCEPT !.n = @ + 1, !.last = "priv_read",
                            !.got = GetReg(A, codec.regs)]
  /\ UNCHANGED codecFrame

\* set_<reg>(v) of cp0 / cp1
PrivWrite(A, v) ==
  /\ codec.pc = "machine"
  /\ codec.n < MaxOps
  /\ A.access = "rw"
  /\ codec' = [codec EXCEPT !.n = @ + 1, !.last = "priv_write",
                            !.regs = SetReg(A, v, @)]
  /\ UNCHANGED codecFrame

MachineOp ==
  \/ \E c \in MachineCells : CellReadOp(c)
  \/ \E c \in MachineCells : CellWriteOp(c, {2, 31})
  \/ \E c \in MachineCells : CellModifyOp(c, "set4")
  \/ \E A \in MachineAccessors : PrivRead(A)
  \/ \E A \in MachineAccessors : PrivWrite(A, {6})

NextMachine ==
  \/ MachineOp
  \/ TakeCheck("main") \/ TakeSteal("main") \/ steal("main")

SpecMachine == InitMachine /\ [][NextMachine]_vars

(* ----------------------------- aliased fields --------------------------- *)

\* the single-bit fields declared inside the bit range of a numeric field
\* of the same register type
Aliases(G) ==
  {F \in Fields : F.reg = G.reg /\ F.kind = "bool" /\ F.o \in Range(G)}

\* the numeric fields that have such single-bit fields: im and ds of the
\* CP0 StatusReg, flags, enables and causes of the CP1 ControlStatusReg
AliasGroups == {G \in Fields : G.kind = "num" /\ Aliases(G) # {}}

\* the register values a group is tried with: patterns of the group with
\* and without one bits around it
AliasSamples(G) ==
  {{b + G.o : b \in fp} \cup ob :
     fp \in FieldPatterns(G), ob \in OutsidePatterns(G)}

InitAlias ==
  /\ FrameInit
  /\ \E G \in AliasGroups :
       \E raw \in AliasSamples(G) :
         codec = [pc |-> "raw", G |-> G, raw |-> raw, F |-> G, value |-> {},
                  out |-> raw]

\* let out = r.with_<group>(m);
SetGroup(m) ==
  /\ codec.pc = "raw"
  /\ codec' = [codec EXCEPT !.pc = "group_set", !.value = m,
                            !.out = With(codec.G, codec.raw, m)]
  /\ UNCHANGED codecFrame

\* let out = r.with_<flag>(b);
SetFlag(F, b) ==
  /\ codec.pc = "raw"
  /\ F \in Aliases(codec.G)
  /\ codec' = [codec EXCEPT !.pc = "flag_set", !.F = F, !.value = b,
                            !.out = With(F, codec.raw, b)]
  /\ UNCHANGED codecFrame

NextAlias ==
  \/ \E m \in SUBSET (0 .. (codec.G.w - 1)) : SetGroup(m)
  \/ \E F \in Fields, b \in BOOLEAN : SetFlag(F, b)

SpecAlias == InitAlias /\ [][NextAlias]_vars

(* ------------------------- write-shape builders ------------------------ *)

ModeRegWriteFields ==
  {Num("ModeRegWrite", 32, "init_length", 0, 6, 8),
   Flag("ModeRegWrite", 32, "clear_init_mode", 7),
   Flag("ModeRegWrite", 32, "set_init_mode", 8),
   Flag("ModeRegWrite", 32, "clear_ebus_test_mode", 9),
   Flag("ModeRegWrite", 32, "set_ebus_test_mode", 10),
   Flag("ModeRegWrite", 32, "clear_dp_interrupt", 11),
   Flag("ModeRegWrite", 32, "clear_rdram_register_mode", 12),
   Flag("ModeRegWrite", 32, "set_rdram_register_mode", 13)}

MaskRegWriteFields ==
  {Flag("MaskRegWrite", 32, "clear_sp", 0),
   Flag("MaskRegWrite", 32, "set_sp", 1),
   Flag("MaskRegWrite", 32, "clear_si", 2),
   Flag("MaskRegWrite", 32, "set_si", 3),
   Flag("MaskRegWrite", 32, "clear_ai", 4),
   Flag("MaskRegWrite", 32, "set_ai", 5),
   Flag("MaskRegWrite", 32, "clear_vi", 6),
   Flag("MaskRegWrite", 32, "set_vi", 7),
   Flag("MaskRegWrite", 32, "clear_pi", 8),
   Flag("MaskRegWrite", 32, "set_pi", 9),
   Flag("MaskRegWrite", 32, "clear_dp", 10),
   Flag("MaskRegWrite", 32, "set_dp", 11)}

PiStatusRegWriteFields ==
  {Flag("StatusRegWrite", 32, "clear_interrupt", 0),
   Flag("StatusRegWrite", 32, "reset_dma", 1)}

WriteShapeFields ==
  ModeRegWriteFields \cup MaskRegWriteFields \cup PiStatusRegWriteFields

\* pub fn <name>(self) -> Self { self.with_<field>(true) }
Builder(shape, name, field) == [shape |-> shape, name |-> name, field |-> field]

Builders ==
  {Builder("ModeRegWrite", n, n) :
     n \in {"clear_init_mode", "set_init_mode", "clear_ebus_test_mode",
            "set_ebus_test_mode", "clear_dp_interrupt",
            "clear_rdram_register_mode", "set_rdram_register_mode"}}
    \cup {Builder("MaskRegWrite", "clear_sp_mask", "clear_sp"),
          Builder("MaskRegWrite", "set_sp_mask", "set_sp"),
          Builder("MaskRegWrite", "clear_si_mask", "clear_si"),
          Builder("MaskRegWrite", "set_si_mask", "set_si"),
          Builder("MaskRegWrite", "clear_ai_mask", "clear_ai"),
          Builder("MaskRegWrite", "set_ai_mask", "set_ai"),
          Builder("MaskRegWrite", "clear_vi_mask", "clear_vi"),
          Builder("MaskRegWrite", "set_vi_mask", "set_vi"),
          Builder("MaskRegWrite", "clear_pi_mask", "clear_pi"),
          Builder("MaskRegWrite", "set_pi_mask", "set_pi"),
          Builder("MaskRegWrite", "clear_dp_mask", "clear_dp"),
          Builder("MaskRegWrite", "set_dp_mask", "set_dp")}
    \cup {Builder("StatusRegWrite", n, n) :
            n \in {"clear_interrupt", "reset_dma"}}

\* the field whose setter the builder calls
BuilderField(B) ==
  CHOOSE F \in WriteShapeFields : F.reg = B.shape /\ F.name = B.field

\* self.with_<field>(true)
BuildFresh(B, raw) == With(BuilderField(B), {}, TRUE)

Build(B, raw) == With(BuilderField(B), raw, TRUE)

\* the values a chain of builders starts from: the default (zero), a value
\* with some bits set and all ones
BuildStarts == {{}, {1, 8, 31}, 0 .. 31}

InitBuild ==
  /\ FrameInit
  /\ \E shape \in {B.shape : B \in Builders}, start \in BuildStarts :
       codec = [pc |-> "build", shape |-> shape, start |-> start,
                raw |-> start, seq |-> <<>>]

\* let w = w.<name>();
BuilderCall(B) ==
  /\ codec.pc = "build"
  /\ Len(codec.seq) < MaxCalls
  /\ B.shape = codec.shape
  /\ codec' = [codec EXCEPT !.raw = Build(B, @), !.seq = Append(@, B.name)]
  /\ UNCHANGED codecFrame

NextBuild == \E B \in Builders : BuilderCall(B)

SpecBuild == InitBuild /\ [][NextBuild]_vars

(* ------------------------- typed register views ------------------------ *)

WidthBits(prim) == IF prim = "u32" THEN 32 ELSE 64

\* bitfield! { pub struct <kind>(pub <storage>) } and
\* derive_tofrom_primitive!(<kind>, <prim>): <<kind, storage, prim>>
Views ==
  {<<"IndexReg", "u32", "u32">>, <<"RandomReg", "u32", "u32">>,
   <<"EntryLoReg", "u32", "u32">>, <<"ContextReg", "u64", "u64">>,
   <<"PageMaskReg", "u32", "u32">>, <<"WiredReg", "u32", "u32">>,
   <<"BadVAddrReg", "u64", "u64">>, <<"EntryHiReg", "u64", "u64">>,
   <<"StatusReg", "u32", "u32">>, <<"CauseReg", "u32", "u32">>,
   <<"ExceptionPcReg", "u64", "u64">>,
   <<"ProcessorRevisionIdReg", "u32", "u32">>,
   <<"ConfigReg", "u32", "u32">>, <<"WatchLoReg", "u32", "u32">>,
   <<"WatchHiReg", "u32", "u32">>, <<"XContextReg", "u64", "u64">>,
   <<"ParityErrorReg", "u32", "u32">>, <<"TagLoReg", "u32", "u32">>,
   <<"ErrorExceptionPcReg", "u64", "u64">>,
   <<"ImplementationRevisionReg", "u32", "u32">>,
   <<"ControlStatusReg", "u32", "u32">>}

\* the $datatype of each accessor: a typed view, or a plain u32
Datatype(A) ==
  CASE A.reg = "index" -> "IndexReg"
    [] A.reg = "random" -> "RandomReg"
    [] A.reg \in {"entrylo0", "entrylo1"} -> "EntryLoReg"
    [] A.reg = "context" -> "ContextReg"
    [] A.reg = "pagemask" -> "PageMaskReg"
    [] A.reg = "wired" -> "WiredReg"
    [] A.reg = "badvaddr" -> "BadVAddrReg"
    [] A.reg \in {"count", "compare", "load_linked_address"} -> "u32"
    [] A.reg = "entryhi" -> "EntryHiReg"
    [] A.reg = "status" -> "StatusReg"
    [] A.reg = "cause" -> "CauseReg"
    [] A.reg = "exception_pc" -> "ExceptionPcReg"
    [] A.reg = "processor_revision_id" -> "ProcessorRevisionIdReg"
    [] A.reg = "config" -> "ConfigReg"
    [] A.reg = "watchlo" -> "WatchLoReg"
    [] A.reg = "watchhi" -> "WatchHiReg"
    [] A.reg = "xcontext" -> "XContextReg"
    [] A.reg = "parity_error" -> "ParityErrorReg"
    [] A.reg = "taglo" -> "TagLoReg"
    [] A.reg = "error_exception_pc" -> "ErrorExceptionPcReg"
    [] A.reg = "revision_implementation" -> "ImplementationRevisionReg"
    [] A.reg = "control_status" -> "ControlStatusReg"

\* the storage type and the primitive of a datatype (u32 is its own)
StorageOf(kind) ==
  IF kind = "u32" THEN "u32" ELSE (CHOOSE v \in Views : v[1] = kind)[2]

PrimOf(kind) ==
  IF kind = "u32" THEN "u32" ELSE (CHOOSE v \in Views : v[1] = kind)[3]

\* impl From<$prim> for $kind: Self(value), the value in the storage field
FromPrimLowWord(kind, value) ==
  [kind |-> kind, raw |-> {b \in value : b < 32}]

FromPrim(kind, value) ==
  [kind |-> kind, raw |-> {b \in value : b < WidthBits(StorageOf(kind))}]

\* impl From<$kind> for $prim: value.0
IntoPrim(view) == {b \in view.raw : b < WidthBits(PrimOf(view.kind))}

\* the raw values of a width that are tried
PrimSamples(prim) ==
  {x \in WideSamples \cup {{7, 15}, {0, 31}} :
     \A b \in x : b < WidthBits(prim)}

NoView == [kind |-> "-", raw |-> {}]

InitView ==
  /\ FrameInit
  /\ \E A \in Accessors, regs \in CpFiles :
       \E x \in PrimSamples(A.width) :
         codec = [pc |-> "raw", A |-> A, x |-> x, regs |-> regs,
                  view |-> NoView, back |-> {}, got |-> NoView]

\* let t: $datatype = x.into(); let back: $width = t.into();
Convert ==
  /\ codec.pc = "raw"
  /\ LET t == FromPrim(Datatype(codec.A), codec.x)
     IN codec' = [codec EXCEPT !.pc = "converted", !.view = t,
                               !.back = IntoPrim(t)]
  /\ UNCHANGED codecFrame

\* set_<reg>(t): [<write_ $width>]::<$index>(data.into())
SetTyped ==
  /\ codec.pc = "converted"
  /\ codec.A.access = "rw"
  /\ codec' = [codec EXCEPT
                 !.pc = "written",
                 !.regs = SetReg(codec.A, IntoPrim(codec.view), @)]
  /\ UNCHANGED codecFrame

\* <reg>(): [<read_ $width>]::<$index>().into()
GetTyped ==
  /\ codec.pc \in {"converted", "written"}
  /\ codec' = [codec EXCEPT
                 !.pc = IF codec.pc = "written" THEN "read_back" ELSE "read",
                 !.got = FromPrim(Datatype(codec.A),
                                  GetReg(codec.A, codec.regs))]
  /\ UNCHANGED codecFrame

NextView == Convert \/ SetTyped \/ GetTyped

SpecView == InitView /\ [][NextView]_vars

(* --------------------------- specifications ---------------------------- *)

ArbiterOp(c) == TakeCheck(c) \/ TakeSteal(c) \/ steal(c) \/ DropHandle(c)

CellOp(c, R) ==
  \/ \E r \in R : read(c, r)
  \/ \E r \in R, v \in Vals : write(c, r, v)
  \/ \E r \in R, f \in Funcs : ModifyLoad(c, r, f)
  \/ ModifyStore(c)

\* main program flow alone
Next == ArbiterOp("main") \/ CellOp("main", Regs)

Spec == Init /\ [][Next]_vars

\* take() and steal() from main program flow and from an interrupt handler
NextIrqTake ==
  \/ ArbiterOp("main")
  \/ ArbiterOp("irq")
  \/ IrqEnter \/ IrqReturn

SpecIrqTake == Init /\ [][NextIrqTake]_vars

\* register cells used from main program flow and from an interrupt handler
NextIrqCell ==
  \/ CellOp("main", Regs)
  \/ CellOp("irq", Regs)
  \/ IrqEnter \/ IrqReturn

SpecIrqCell == Init /\ [][NextIrqCell]_vars

\* each context keeps to its own registers
MainRegs == {"ctrl"}
IrqRegs == {"origin"}

NextDisjoint ==
  \/ CellOp("main", MainRegs)
  \/ CellOp("irq", IrqRegs)
  \/ IrqEnter \/ IrqReturn

SpecDisjoint == Init /\ [][NextDisjoint]_vars

(* ------------------------ the ownership arbiter ------------------------ *)

Returned(c, k) == op[c].kind = k /\ pc[c] = "idle"

\* C1: in a single-threaded sequence of take() and steal() calls, a take()
\* returns a handle exactly when no take() or steal() completed before it,
\* and at most one take() of the whole sequence returns a handle.
TakeOnlyFirst ==
  /\ Returned("main", "take") =>
       (op["main"].res = "Some" <=> op["main"].before = 0)
  /\ Returned("main", "take") => op["main"].res \in {"Some", "None"}
  /\ takeSome <= 1

\* two take() calls in a row: the second has just returned None
SecondTakeNone ==
  /\ Returned("main", "take")
  /\ op["main"].res = "None"
  /\ op["main"].before = 1
  /\ takeSome = 1
  /\ nSteal = 0

\* C2: steal() yields a handle in every state, however often it was called
\* before; after any steal() the flag is set, and every take() called after
\* a steal() returns None.
StealAlwaysYields ==
  /\ \A c \in Ctxs : op[c].kind = "steal" => op[c].res = "Some"
  /\ nSteal > 0 => HARDWARE_TAKEN
  /\ \A c \in Ctxs :
       (Returned(c, "take") /\ op[c].stolen) => op[c].res = "None"
  /\ \A c \in Ctxs : (pc[c] = "take_steal") => ~op[c].stolen

\* steal(), steal() again, then take(): two handles and a None
StealTwiceThenTake ==
  /\ Returned("main", "take")
  /\ op["main"].stolen
  /\ op["main"].res = "None"
  /\ nSteal = 2
  /\ takeSome = 0
  /\ handles = 2

\* C3: the flag is false at the start and never goes from true back to
\* false, also when a handle is discarded; once it is true no take()
\* succeeds any more.
FlagMonotonic ==
  /\ ~HARDWARE_TAKEN
  /\ [][/\ HARDWARE_TAKEN => HARDWARE_TAKEN'
        /\ HARDWARE_TAKEN => takeSome' = takeSome]_vars

\* every handle has been dropped, and the take() after that returned None
TakeAfterDropNone ==
  /\ Returned("main", "take")
  /\ op["main"].res = "None"
  /\ handles = 0
  /\ HARDWARE_TAKEN

\* C4: with take() called from main flow and from an interrupt handler that
\* preempts main flow between the read and the write of the flag, at most
\* one take() returns a handle.
AtMostOneTake == takeSome <= 1

\* C5: a take() on claimed hardware returns None and nothing else: it
\* returns, the flag, the live handles and every register are unchanged,
\* and a steal() that follows yields a handle.
TakeContention ==
  [][\A c \in Ctxs :
       /\ (Idle(c) /\ HARDWARE_TAKEN /\ op'[c].kind = "take"
             /\ op'[c] # op[c])
            => /\ op'[c].res = "None"
               /\ pc'[c] = "idle"
               /\ HARDWARE_TAKEN' = HARDWARE_TAKEN
               /\ handles' = handles
               /\ mem' = mem
       /\ (Returned(c, "take") /\ op[c].res = "None"
             /\ op'[c].kind = "steal")
            => /\ op'[c].res = "Some"
               /\ handles' = handles + 1]_vars

\* take() (Some), take() (None), then steal() (Some)
StealAfterContention ==
  /\ Returned("main", "steal")
  /\ op["main"].res = "Some"
  /\ nDone = 3
  /\ nSteal = 1
  /\ takeSome = 1
  /\ handles = 2

(* --------------------------- the register cell ------------------------- *)

\* C6: modify(f) is one load of the cell, then f, then one store of f's
\* result to the same cell; run with no other access in between, the cell
\* then holds f(old).
ModifyLoadThenStore ==
  \A c \in Ctxs :
    /\ pc[c] = "modify_store" =>
         /\ acc[c] = <<<<"load", op[c].reg>>>>
         /\ op[c].loaded = op[c].old
         /\ mem[op[c].reg] = op[c].old
    /\ Returned(c, "modify") =>
         /\ acc[c] = <<<<"load", op[c].reg>>, <<"store", op[c].reg>>>>
         /\ op[c].arg = Apply(op[c].fn, op[c].loaded)
         /\ mem[op[c].reg] = Apply(op[c].fn, op[c].old)

\* a modify that changed the cell has returned
ModifyReturned ==
  /\ Returned("main", "modify")
  /\ op["main"].fn = "inc"
  /\ mem[op["main"].reg] # op["main"].old

\* C7: modify is not atomic: when the handler writes w to the register
\* between the load and the store of a main-flow modify(f), the register
\* holds f(v_loaded) once the modify has stored, whatever w was.
LostUpdate ==
  [][\A c \in Ctxs :
       (pc[c] = "modify_store" /\ pc'[c] = "idle")
         => mem'[op[c].reg] = Apply(op[c].fn, op[c].loaded)]_vars

\* the handler's write w is gone: the register holds f(v_loaded), which is
\* neither w nor f(w)
HandlerWriteLost ==
  /\ Returned("main", "modify")
  /\ pc["irq"] = "off"
  /\ op["main"].clob # -1
  /\ op["main"].clob # op["main"].loaded
  /\ mem[op["main"].reg] = op["main"].arg
  /\ mem[op["main"].reg] # op["main"].clob
  /\ mem[op["main"].reg] # Apply(op["main"].fn, op["main"].clob)

\* C8: modify with the identity function leaves the stored raw value of
\* the cell (and of every other cell) as it was.
IdentityModify ==
  [][\A c \in Ctxs :
       (pc'[c] = "idle" /\ op'[c].kind = "modify" /\ op'[c].fn = "id")
         => /\ mem' = mem
            /\ mem'[op'[c].reg] = op'[c].old]_vars

\* modify(identity) has returned on a cell that holds a nonzero raw value
IdentityModifyReturned ==
  /\ Returned("main", "modify")
  /\ op["main"].fn = "id"
  /\ op["main"].old = MaxVal
  /\ mem[op["main"].reg] = MaxVal

\* C9: when main flow and the handler use disjoint registers, the registers
\* end as if the operations had run one after the other: no write is lost.
NoLostWrite ==
  (\A c \in Ctxs : pc[c] \in {"idle", "off"}) => mem = seqMem

\* a main-flow modify has returned that the handler interrupted, between
\* load and store, to store to its own register
ModifyInterruptedElsewhere ==
  /\ Returned("main", "modify")
  /\ pc["irq"] = "off"
  /\ op["main"].other
  /\ op["main"].fn = "inc"
  /\ mem = seqMem

(* ---------------------------- the field codec -------------------------- *)

\* the bits of the raw value that lie in the field
InField(F, raw) == raw \cap Range(F)

\* the field's bits in raw are the declared value of a variant
Mapped(F, raw) == Declared(F.en, NumOf(Extract(raw, F.o, F.w)))

\* C10 (as stated): for every field, numeric, boolean or enumerated, and
\* every raw value r, decoding the field from r and encoding the decoded
\* value into a zero register gives r's bits in [o, o+w) and zero elsewhere.
RoundTripIsolation ==
  codec.pc = "encoded" => codec.out = InField(codec.F, codec.raw)

\* C10 (amended): the result is zero outside [o, o+w); inside it equals r's
\* bits for a numeric or boolean field and for an enumerated field whose
\* bits in r are the declared value of a variant; for any other pattern of
\* an enumerated field it is the value of the default variant modulo 2^w.
RoundTripIsolationMapped ==
  codec.pc = "encoded" =>
    LET F == codec.F
        r == codec.raw
    IN /\ codec.out \subseteq Range(F)
       /\ (F.kind \in {"num", "bool"}) => codec.out = InField(F, r)
       /\ (F.kind = "enum" /\ Mapped(F, r)) => codec.out = InField(F, r)
       /\ (F.kind = "enum" /\ ~Mapped(F, r)) =>
            Extract(codec.out, F.o, F.w)
              = BitsOf(into_primitive(F.en, EnumOf(F.en).default), F.w)

\* an undeclared pattern of an enumerated field, in a register value with
\* bits set outside the field, has been decoded and encoded again
UnmappedPatternReencoded ==
  /\ codec.pc = "encoded"
  /\ codec.F.kind = "enum"
  /\ ~Mapped(codec.F, codec.raw)
  /\ codec.raw \ Range(codec.F) # {}
  /\ codec.out # InField(codec.F, codec.raw)

\* C11: decoding an enumerated field is total: every bit pattern of the
\* field's width yields a variant of the enumeration, the variant with that
\* declared value if there is one and the variant marked default otherwise.
EnumDecodeTotal ==
  codec.pc = "variant" =>
    LET en == codec.F.en
    IN /\ codec.value \in VariantNames(en)
       /\ \A v \in EnumOf(en).variants :
            (v[2] = codec.n) => codec.value = v[1]
       /\ (\A v \in EnumOf(en).variants : v[2] # codec.n)
            => codec.value = EnumOf(en).default
       /\ (en = "CacheAlgorithm" /\ codec.n # 2) => codec.value = "Cached"

\* an undeclared ExceptionCode pattern, in a register value with every other
\* bit set, has been decoded to the default variant
ReservedPatternDecoded ==
  /\ codec.pc = "variant"
  /\ codec.F.en = "ExceptionCode"
  /\ codec.n = 14
  /\ codec.raw \ Range(codec.F) # {}
  /\ codec.value = "Reserved"

\* C12: for every enumerated field and every variant of its enumeration,
\* the default variant included, storing the variant in the field and
\* reading the field again returns the same variant.
VariantRoundTrip ==
  codec.pc = "back" => codec.back = codec.value

\* C13: setting a field changes only the bits [o, o+w) of the register
\* value: every bit outside the field is as it was before, and when the
\* value before was zero every bit outside the field is zero afterwards.
SetFieldFrame ==
  codec.pc \in {"set", "got"} =>
    LET F == codec.F
    IN /\ \A b \in 0 .. (F.sw - 1) :
            (b \notin Range(F)) => ((b \in codec.out) <=> (b \in codec.raw))
       /\ codec.out \subseteq 0 .. (F.sw - 1)
       /\ (codec.raw = {}) => codec.out \subseteq Range(F)

\* a field has been set to a value that changed its bits, in a register
\* value that had bits set on both sides of the field
SetFieldAmongOthers ==
  /\ codec.pc = "set"
  /\ codec.F.name = "aa_mode"
  /\ {codec.F.o - 1, codec.F.o + codec.F.w} \subseteq codec.raw
  /\ InField(codec.F, codec.out) # InField(codec.F, codec.raw)
  /\ codec.out \ Range(codec.F) = codec.raw \ Range(codec.F)

\* C14: setting a numeric field of width w stores the input modulo 2^w:
\* bit i of the field is bit i of the input for i < w, the input's bits
\* from w upwards are dropped, reading the field returns the input modulo
\* 2^w, and no bit outside the field changes.
NumericTruncation ==
  (codec.pc \in {"set", "got"} /\ codec.F.kind = "num") =>
    LET F == codec.F
        low == {b \in codec.value : b < F.w}
    IN /\ \A i \in 0 .. (F.w - 1) :
            ((F.o + i) \in codec.out) <=> (i \in codec.value)
       /\ \A b \in (0 .. (F.sw - 1)) \ Range(F) :
            (b \in codec.out) <=> (b \in codec.raw)
       /\ codec.out \subseteq 0 .. (F.sw - 1)
       /\ (codec.pc = "got") => (codec.got = low)

\* IndexReg.index, six bits wide, has been set from a u8 input with bit 6
\* set while the bit above the field was clear in the register value
OversizedIndexStored ==
  /\ codec.pc = "got"
  /\ codec.F.reg = "IndexReg"
  /\ codec.F.name = "index"
  /\ 6 \in codec.value
  /\ 6 \notin codec.raw
  /\ 6 \notin codec.out
  /\ codec.got = codec.value \ {6}

\* C15: after a raw value r is written to a register through its block,
\* reading the register returns r and reading a field at offset o of width
\* w returns (r >> o) mod 2^w; no other cell of the block is touched; for
\* r = 0xA a field at bits 1..=2 reads 0b01.
WriteThenReadField ==
  codec.pc = "read" =>
    LET F == codec.F
        r == codec.raw
    IN /\ codec.whole = r
       /\ (F.kind = "num") =>
            /\ codec.field \subseteq 0 .. (F.w - 1)
            /\ \A i \in 0 .. (F.w - 1) :
                 (i \in codec.field) <=> ((F.o + i) \in r)
       /\ (F.kind = "bool") => (codec.field <=> (F.o \in r))
       /\ (F.kind = "enum") =>
            \E n \in 0 .. (2 ^ F.w - 1) :
              /\ \A i \in 0 .. (F.w - 1) :
                   (i \in BitsOf(n, F.w)) <=> ((F.o + i) \in r)
              /\ codec.field = from_primitive(F.en, n)
       /\ \A n \in CellNames(codec.dev) \ {codec.cell} :
            codec.block[n] \in {{}, 0 .. 31}
       /\ Get(Num("Reg", 32, "F", 1, 2, 8), BitsOf(10, 4)) = BitsOf(1, 8)

\* 0xA has been written to AI status, whose cells all held ones before, and
\* dac_cntr (bits 1..=14) has been read back as 0b101
StatusWrittenThenRead ==
  /\ codec.pc = "read"
  /\ codec.dev = "ai"
  /\ codec.F.name = "dac_cntr"
  /\ codec.raw = {1, 3}
  /\ codec.block["length"] = 0 .. 31
  /\ codec.whole = {1, 3}
  /\ codec.field = {0, 2}

\* C16: on a dual-view register, what a read returns is a function of the
\* stored bits alone: any two reads that found the same stored bits returned
\* equal read-shapes, whichever view wrote those bits, and each read-shape
\* is the decoding of the stored bits.
ReadFromStoredBitsOnly ==
  codec.pc = "ready" =>
    /\ \A p, q \in codec.log : (p.stored = q.stored) => (p.result = q.result)
    /\ \A p \in codec.log :
         /\ p.result.raw = p.stored
         /\ \A F \in codec.dv.readFields :
              IF F.kind = "bool"
                THEN p.result.fields[F] <=> (F.o \in p.stored)
                ELSE \A i \in 0 .. (F.w - 1) :
                       (i \in p.result.fields[F]) <=> ((F.o + i) \in p.stored)

\* the same bits were stored once through the write view and once through
\* the raw view, a different write-shape having been written in between,
\* and both were read back
SameBitsTwoViews ==
  /\ codec.pc = "ready"
  /\ \E p, q \in codec.log :
       /\ p.stored = q.stored
       /\ p.by = "write"
       /\ q.by = "raw"
       /\ p.result = q.result
       /\ codec.hidden # p.stored

\* C17 (as stated): a write to a dual-view register through the write view
\* stores only the bits the write-shape's fields define, every other bit
\* being dropped from the caller's value, and nothing of the previous
\* contents.
UnionWriteDefinedOnly ==
  (codec.pc = "ready" /\ codec.last.kind = "write"
     /\ codec.last.view = "write") =>
    codec.block[codec.dv.cell] = codec.last.data \cap codec.dv.defined

\* C17 (amended): a write to a dual-view register stores the caller's
\* 32-bit value as it is, the bits the write-shape's fields do not define
\* included, and nothing of the previous contents: the stored value is the
\* written one whatever was stored before, and no other cell changes.
UnionWriteVerbatim ==
  (codec.pc = "ready" /\ codec.last.kind = "write") =>
    /\ \A b \in 0 .. 31 :
         (b \in codec.block[codec.dv.cell]) <=> (b \in codec.last.data)
    /\ \A n \in CellNames(codec.dv.dev) \ {codec.dv.cell} :
         codec.block[n] \in {{}, 0 .. 31}

\* a write-shape with only bit 31 set, a bit none of its fields define, has
\* been written over a register holding all ones
UndefinedBitStored ==
  /\ codec.pc = "ready"
  /\ codec.last.kind = "write"
  /\ codec.last.view = "write"
  /\ codec.last.via = "static"
  /\ codec.last.before = 0 .. 31
  /\ codec.last.data = {31}
  /\ codec.block[codec.dv.cell] = {31}

\* C18: no read-modify-write is ever performed on a dual-view register:
\* the only accesses to MI mode, MI mask and PI status are reads and writes.
NoModifyOnDualView ==
  codec.pc = "ready" => codec.last.kind \in {"none", "read", "write"}

\* C19: the byte offset of every cell of a register block, the cells laid
\* out contiguously in declaration order, is the register's offset in the
\* address table, so that what is stored through the cell is what is found
\* at the register's address.
LayoutMatchesTable ==
  /\ (codec.pc \in {"stored", "loaded"}) =>
       codec.at = MemoryTable(codec.dev)[codec.name]
  /\ (codec.pc = "loaded") => codec.got = codec.data

\* C20: the 64-bit write hands the coprocessor register exactly the value
\* written, bit for bit, whatever the input registers hold above bit 31 and
\* whether or not bit 31 of the value is set, and leaves the other
\* registers alone; the 64-bit read of the register returns exactly that
\* value.
WideTransportExact ==
  /\ (codec.pc \in {"written", "read"}) =>
       /\ \A b \in 0 .. 63 :
            (b \in codec.cpr[codec.idx]) <=> (b \in codec.v)
       /\ codec.cpr[codec.idx] \subseteq 0 .. 63
       /\ \A r \in CpRegs \ {codec.idx} : codec.cpr[r] \in {{}, 0 .. 63}
  /\ (codec.pc = "read") => codec.got = codec.v

\* a value with bit 31 set and bits 32 .. 63 clear has been written from an
\* input register whose high half was all ones, over a register holding
\* all ones, and read back
Bit31WrittenAndRead ==
  /\ codec.pc = "read"
  /\ codec.v = {31}
  /\ codec.lo = {31} \cup (32 .. 63)
  /\ codec.idx = <<"cp0", 10>>
  /\ \E r \in CpRegs : codec.cpr[r] = 0 .. 63
  /\ codec.got = {31}

\* C21 (as stated): a 64-bit privileged read is made of two privileged
\* reads of the register, one per half, and a 64-bit privileged write of
\* two privileged writes.
WideAccessInTwoHalves ==
  codec.pc = "done" => codec.nPriv = 2

\* C21 (amended): a 64-bit privileged read is one privileged read of the
\* whole register, split and recombined in general registers, and a 64-bit
\* privileged write is one privileged write of a value composed in a
\* temporary; whenever another context writes the same register, the read
\* returns, and the register holds, one of the values written as a whole,
\* never a high half and a low half of different values.
WideAccessWhole ==
  /\ codec.pc = "done" => codec.nPriv = 1
  /\ codec.reg \in codec.whole
  /\ (codec.pc = "done" /\ codec.kind = "read") => codec.got \in codec.whole
  /\ (codec.pc = "done" /\ codec.kind = "read" /\ codec.irqAt # "start")
       => codec.got = codec.v
  /\ (codec.pc = "done" /\ codec.kind = "write") => codec.reg = codec.v

\* the handler wrote the register after the main flow's dmfc0 and before
\* the halves were split; the read returned the earlier value whole
ReadInterruptedBetweenHalves ==
  /\ codec.pc = "done"
  /\ codec.kind = "read"
  /\ codec.irqAt = "fetched"
  /\ codec.reg # codec.v
  /\ codec.got = codec.v

\* C22: modify_<reg>(f) on a read-write privileged register, as a module
\* function or as a method, makes one privileged read and then one
\* privileged write to the same index; run alone it leaves f(old) in the
\* register the accessor is named after, and when a handler writes that
\* register between the read and the write the handler's value is lost:
\* the register again ends as f(old).
CpModifyReadThenWrite ==
  codec.pc = "done" =>
    /\ codec.moves = <<<<"from", codec.A.index>>, <<"to", codec.A.index>>>>
    /\ (codec.irqAt \in {"-", "got"}) =>
         NamedValue(codec.A, codec.regs)
           = ApplyCp(codec.f, NamedValue(codec.A, codec.regs0))

\* C22, for the registers of CP0 alone
Cp0ModifyReadThenWrite ==
  (codec.pc = "done" /\ codec.A.module = "cp0") =>
    /\ codec.moves = <<<<"from", codec.A.index>>, <<"to", codec.A.index>>>>
    /\ (codec.irqAt \in {"-", "got"}) =>
         NamedValue(codec.A, codec.regs)
           = ApplyCp(codec.f, NamedValue(codec.A, codec.regs0))

\* the CP1 general (floating-point data) registers are as a call found them
DataRegistersKept ==
  \A r \in CpFile : (r[1] = "fpr") => codec.regs[r] = codec.last.before[r]

\* C24: write_fcr::<31>(v) writes v to CP1 control register 31, the
\* register read_fcr::<31>() reads: read_fcr right after write_fcr(v)
\* returns v, and write_fcr changes no floating-point data register.
FcrWriteThenRead ==
  /\ (codec.pc = "ready" /\ codec.last.kind = "read_fcr"
        /\ codec.prev.kind = "write_fcr" /\ codec.last.idx = codec.prev.idx)
       => codec.last.got = codec.prev.v
  /\ (codec.pc = "ready" /\ codec.last.kind = "write_fcr")
       => /\ DataRegistersKept
          /\ {b \in codec.regs[<<"fcr", codec.last.idx>>] : b < 32}
               = codec.last.v

\* C25: control_status() returns what read_fcr::<31>() returns and
\* revision_implementation() what read_fcr::<0>() returns;
\* set_control_status(v) makes read_fcr::<31>() return v and changes no
\* floating-point data register.
ControlStatusIsFcr31 ==
  /\ (codec.pc = "ready"
        /\ codec.last.kind \in {"control_status", "revision_implementation"})
       => codec.last.got
            = CpRead("cp1", "read_fcr", codec.last.idx, codec.regs)
  /\ (codec.pc = "ready" /\ codec.last.kind = "set_control_status")
       => /\ CpRead("cp1", "read_fcr", 31, codec.regs) = codec.last.v
          /\ DataRegistersKept

WriteTouchesOneCell ==
  [][\A c \in MachineCells :
       CellWriteOp(c, {2, 31}) =>
         /\ codec'.mm[c] = {2, 31}
         /\ \A d \in MachineCells \ {c} : codec'.mm[d] = codec.mm[d]
         /\ codec'.regs = codec.regs
         /\ HARDWARE_TAKEN' = HARDWARE_TAKEN
         /\ CellOf(c[1], c[2]).access \in {"RW", "WO"}]_vars

\* the write-only cell AI dram_addr has been written after the handle was
\* taken: it holds the value written, its neighbour AI length and the other
\* blocks hold what they held
WriteOnlyCellWritten ==
  /\ codec.pc = "machine"
  /\ codec.last = "write"
  /\ HARDWARE_TAKEN
  /\ codec.mm[<<"ai", "dram_addr">>] = {2, 31}
  /\ codec.mm[<<"ai", "length">>] = {1}
  /\ codec.mm[<<"mi", "mode">>] = {1}

\* C27: observing and arbitrating change nothing else: read() on an RO or
\* RW cell and a privileged read leave every register cell, every
\* coprocessor register and the ownership flag as they were; the steps of
\* take() and steal() leave every register cell and every coprocessor
\* register as they were; and no step of the machine changes a read-only
\* cell.
ObserversKeepRegisters ==
  [][/\ ((\E c \in MachineCells : CellReadOp(c))
           \/ (\E A \in MachineAccessors : PrivRead(A))) =>
          /\ codec'.mm = codec.mm
          /\ codec'.regs = codec.regs
          /\ HARDWARE_TAKEN' = HARDWARE_TAKEN
     /\ (TakeCheck("main") \/ TakeSteal("main") \/ steal("main")) =>
          /\ codec'.mm = codec.mm
          /\ codec'.regs = codec.regs
     /\ \A c \in MachineCells :
          CellOf(c[1], c[2]).access = "RO" => codec'.mm[c] = codec.mm[c]]_vars

\* after a steal and a write of AI length, a read returned the value
\* written; the read-only cell MI version holds one of its initial values
ReadAfterWriteAndSteal ==
  /\ codec.pc = "machine"
  /\ codec.last = "read"
  /\ codec.n = MaxOps
  /\ codec.got = {2, 31}
  /\ codec.mm[<<"ai", "length">>] = {2, 31}
  /\ codec.mm[<<"mi", "version">>] \in {{1}, {0, 31}}
  /\ nSteal > 0
  /\ HARDWARE_TAKEN

\* the flags of im in the order of the bits of im they stand for
ImFlags ==
  <<"im_ip0", "im_ip1", "im_int0", "im_int1", "im_int2", "im_int3",
    "im_int4", "im_timer">>

\* C28: aliased fields agree. After a group field (im, ds of the CP0
\* StatusReg; flags, enables, causes of the CP1 ControlStatusReg) is set to
\* m, each single-bit field inside its range reads the bit of m at the
\* flag's position within the group, the flags of im reading bits 0..7 of
\* m in their declared order; and setting one of the flags gives the
\* register value with exactly that bit set to the flag's value, every
\* other bit of the register unchanged, so the group reads its old value
\* with that one bit replaced.
AliasedFieldsAgree ==
  /\ {G.name : G \in AliasGroups} = {"im", "ds", "flags", "enables", "causes"}
  /\ codec.pc = "group_set" =>
       /\ \A F \in Aliases(codec.G) :
            Get(F, codec.out) = ((F.o - codec.G.o) \in codec.value)
       /\ codec.G.name = "im" =>
            \A i \in 1 .. 8 :
              \E F \in Aliases(codec.G) :
                /\ F.name = ImFlags[i]
                /\ Get(F, codec.out) = ((i - 1) \in codec.value)
  /\ codec.pc = "flag_set" =>
       /\ codec.out = (codec.raw \ {codec.F.o})
                        \cup (IF codec.value THEN {codec.F.o} ELSE {})
       /\ Get(codec.G, codec.out) =
            (Get(codec.G, codec.raw) \ {codec.F.o - codec.G.o})
              \cup (IF codec.value THEN {codec.F.o - codec.G.o} ELSE {})

\* ds_sr has been set in a StatusReg whose ds was zero and whose bits
\* around ds were one: ds now reads 16 and the bits around are still one
DsFlagSetAmongOthers ==
  /\ codec.pc = "flag_set"
  /\ codec.G.name = "ds"
  /\ codec.F.name = "ds_sr"
  /\ codec.value = TRUE
  /\ Get(codec.G, codec.raw) = {}
  /\ Get(codec.G, codec.out) = {4}
  /\ {15, 25} \subseteq codec.out

\* C29: the builders of ModeRegWrite, MaskRegWrite and the PI
\* StatusRegWrite sit on distinct single bits of their shape (a fact of
\* the declarations, looked at before any builder runs), and a value built
\* by any chain of builders is the starting value with exactly the bits of
\* the builders applied set to one, whatever their order and however often
\* each was applied.
BuildersSetOwnBit ==
  /\ codec.seq = <<>> =>
       /\ \A B1, B2 \in Builders :
            (B1.shape = B2.shape /\ B1 # B2) =>
              BuilderField(B1).o # BuilderField(B2).o
       /\ \A B \in Builders : BuilderField(B).w = 1
  /\ codec.raw =
       codec.start
         \cup {BuilderField(B).o :
                 B \in {X \in Builders :
                          /\ X.shape = codec.shape
                          /\ \E i \in 1 .. Len(codec.seq) :
                               codec.seq[i] = X.name}}

\* set_sp_mask, clear_dp_mask and set_sp_mask again were applied to the
\* default MaskRegWrite: bits 1 and 10 are set and nothing else
MaskBuiltTwiceAndOnce ==
  /\ codec.pc = "build"
  /\ codec.shape = "MaskRegWrite"
  /\ codec.start = {}
  /\ codec.seq = <<"set_sp_mask", "clear_dp_mask", "set_sp_mask">>
  /\ codec.raw = {1, 10}

\* C30: conversion between a raw value and a typed register view loses
\* nothing at the register's declared width. Every view is stored in, and
\* converts to and from, the primitive of its accessor's declared width
\* (a fact of the declarations, looked at before anything runs); a raw
\* value of that width converted to the view and back is the same value;
\* and <reg>() after set_<reg>(t) returns a view of the same type with
\* the raw value of t.
ViewLossless ==
  /\ codec.pc = "raw" =>
       \A A \in Accessors :
         /\ PrimOf(Datatype(A)) = A.width
         /\ StorageOf(Datatype(A)) = A.width
  /\ codec.pc # "raw" =>
       /\ codec.view.raw = codec.x
       /\ codec.back = codec.x
  /\ codec.pc = "read_back" =>
       /\ codec.got = codec.view
       /\ IntoPrim(codec.got) = codec.x

\* entryhi() after set_entryhi(t), t having bits in both halves and the
\* register having held something else: the view read has the bits of t
EntryHiReadBack ==
  /\ codec.pc = "read_back"
  /\ codec.A.reg = "entryhi"
  /\ codec.x = {31, 63}
  /\ codec.got.kind = "EntryHiReg"
  /\ codec.got.raw = {31, 63}
  /\ codec.regs[<<"cp0", 10>>] = {31, 63}

====
